---------------------------- MODULE Spec2Model ----------------------------
(***************************************************************************)
(* Streaming email generation of databricks-app/llm_utils.py:              *)
(*   _clean_json_response, json.loads, core_generate_email_logic,          *)
(*   stream_generate_email_logic and its output reducer                    *)
(*   stream_output_reducer.                                                *)
(*                                                                         *)
(* A Python str is a sequence of one-character strings, so that slicing,   *)
(* startswith/endswith, strip and the JSON scanner work on characters as   *)
(* the code does.  Messages that are never looked into are sequences of    *)
(* fragments.  A Python value is a tagged record: None, str, int, dict.    *)
(***************************************************************************)
EXTENDS Integers, Sequences, FiniteSets, TLC

-----------------------------------------------------------------------------
(* Bounds of the model *)

\* longest chunk list handed to stream_output_reducer
MaxChunks == 4

\* most chunks the upstream completion stream delivers in one request
MaxUpstream == 3

\* most whitespace characters put before and after an LLM payload
MaxPad == 1

-----------------------------------------------------------------------------
(* Literals of the source *)

\* the grave accent character U+0060, which a TLA+ string literal cannot hold
Backtick == "GRAVE"

\* three grave accents, "json" and a newline, llm_utils.py:93
FenceJsonOpen ==
    <<Backtick, Backtick, Backtick, "j", "s", "o", "n", "\n">>

\* a newline and three grave accents, llm_utils.py:93
FenceJsonClose ==
    <<"\n", Backtick, Backtick, Backtick>>

\* three grave accents, llm_utils.py:95
Fence ==
    <<Backtick, Backtick, Backtick>>

KeySubjectLine ==
    <<"s", "u", "b", "j", "e", "c", "t", "_", "l", "i", "n", "e">>

KeyBody ==
    <<"b", "o", "d", "y">>

KeyTraceId ==
    <<"t", "r", "a", "c", "e", "_", "i", "d">>

KeyError ==
    <<"e", "r", "r", "o", "r">>

KeyRawContent ==
    <<"r", "a", "w", "_", "c", "o", "n", "t", "e", "n", "t">>

\* f"Failed to parse email JSON: {str(e)}", llm_utils.py:164 and :225
ParseErrorPrefix ==
    <<"Failed to parse email JSON: ">>

\* RuntimeError("OpenAI client not available"), llm_utils.py:79
ClientMissingMessage ==
    <<"OpenAI client not available">>

-----------------------------------------------------------------------------
(* Python values *)

PyNone == [t |-> "none"]

PyStr(s) == [t |-> "str", sv |-> s]

PyInt(n) == [t |-> "int", nv |-> n]

PyDict(m) == [t |-> "dict", m |-> m]

EmptyMap == [k \in {} |-> PyNone]

\* d[k] = v on a dict's mapping
SetItem(m, k, v) == (k :> v) @@ m

\* d.get(k, default) on a chunk
Get(d, k, default) == IF k \in DOMAIN d THEN d[k] ELSE default

\* truth value of None or a str
Truthy(v) == v.t = "str" /\ Len(v.sv) > 0

-----------------------------------------------------------------------------
(* str operations *)

PyWhitespace == {" ", "\n"}

StartsWith(s, p) == Len(s) >= Len(p) /\ SubSeq(s, 1, Len(p)) = p

EndsWith(s, p) == Len(s) >= Len(p) /\ SubSeq(s, Len(s) - Len(p) + 1, Len(s)) = p

\* s[a:-b] for a, b > 0: empty when the two cuts cross
SliceBetween(s, a, b) ==
    IF a >= Len(s) - b THEN <<>> ELSE SubSeq(s, a + 1, Len(s) - b)

RECURSIVE FirstNonWs(_, _)
FirstNonWs(s, i) ==
    IF i <= Len(s) /\ s[i] \in PyWhitespace THEN FirstNonWs(s, i + 1) ELSE i

RECURSIVE LastNonWs(_, _)
LastNonWs(s, i) ==
    IF i >= 1 /\ s[i] \in PyWhitespace THEN LastNonWs(s, i - 1) ELSE i

\* s.strip()
Strip(s) == SubSeq(s, FirstNonWs(s, 1), LastNonWs(s, Len(s)))

\* _clean_json_response with the json-tagged branch cutting only the backticks
CleanJsonTagKept(response_content) ==
    LET clean_string ==
            IF StartsWith(response_content, FenceJsonOpen)
               /\ EndsWith(response_content, FenceJsonClose)
            THEN SliceBetween(response_content, Len(Fence), Len(Fence))
            ELSE IF StartsWith(response_content, Fence)
                    /\ EndsWith(response_content, Fence)
            THEN SliceBetween(response_content, Len(Fence), Len(Fence))
            ELSE response_content
    IN  Strip(clean_string)

\* _clean_json_response cutting three characters off each end of any response
CleanAlwaysCut(response_content) ==
    Strip(SliceBetween(response_content, Len(Fence), Len(Fence)))

\* _clean_json_response testing for the generic fence before the json-tagged one
CleanGenericFirst(response_content) ==
    LET clean_string ==
            IF StartsWith(response_content, Fence)
               /\ EndsWith(response_content, Fence)
            THEN SliceBetween(response_content, Len(Fence), Len(Fence))
            ELSE IF StartsWith(response_content, FenceJsonOpen)
                    /\ EndsWith(response_content, FenceJsonClose)
            THEN SliceBetween(response_content, Len(FenceJsonOpen), Len(FenceJsonClose))
            ELSE response_content
    IN  Strip(clean_string)

_clean_json_response(response_content) ==
    LET clean_string ==
            IF StartsWith(response_content, FenceJsonOpen)
               /\ EndsWith(response_content, FenceJsonClose)
            THEN SliceBetween(response_content, Len(FenceJsonOpen), Len(FenceJsonClose))
            ELSE IF StartsWith(response_content, Fence)
                    /\ EndsWith(response_content, Fence)
            THEN SliceBetween(response_content, Len(Fence), Len(Fence))
            ELSE response_content
    IN  Strip(clean_string)

-----------------------------------------------------------------------------
(* json.loads on the characters the model uses: objects, strings, integers *)
(* written with the digit 1, and null.  Positions in results are 1-based   *)
(* indexes of the next character; positions in errors are Python's         *)
(* 0-based character offsets.                                              *)

JsonWhitespace == {" ", "\n"}

NullLiteral ==
    <<"n", "u", "l", "l">>

Ok(val, end) == [ok |-> TRUE, val |-> val, end |-> end]

\* JSONDecodeError(msg, doc, pos)
DecodeError(msg, pos) == [ok |-> FALSE, msg |-> msg, pos |-> pos]

\* str(e) of a JSONDecodeError
ErrorText(e) == <<e.msg, ToString(e.pos)>>

RECURSIVE SkipWs(_, _)
SkipWs(s, i) ==
    IF i <= Len(s) /\ s[i] \in JsonWhitespace THEN SkipWs(s, i + 1) ELSE i

\* index of the terminator of the string chunk starting at i: a quote, a
\* backslash, a control character, or Len(s) + 1 when there is none
RECURSIVE StringTerminator(_, _)
StringTerminator(s, i) ==
    IF i > Len(s) \/ s[i] \in {"\"", "\\", "\n"} THEN i ELSE StringTerminator(s, i + 1)

\* json.decoder.BACKSLASH, for the characters the model uses
Backslash ==
    ("\"" :> "\"") @@ ("\\" :> "\\") @@ ("n" :> "\n")

\* the loop of scanstring: begin is the index after the opening quote, i the
\* index the next chunk starts at, acc the characters decoded so far
RECURSIVE ScanChunks(_, _, _, _)
ScanChunks(s, begin, i, acc) ==
    LET j == StringTerminator(s, i)
    IN  IF j > Len(s)
        THEN DecodeError("Unterminated string starting at", begin - 2)
        ELSE IF s[j] = "\""
        THEN Ok(PyStr(acc \o SubSeq(s, i, j - 1)), j + 1)
        ELSE IF s[j] /= "\\"
        THEN DecodeError("Invalid control character at", j - 1)
        ELSE IF j + 1 > Len(s)
        THEN DecodeError("Unterminated string starting at", begin - 2)
        ELSE IF s[j + 1] \in DOMAIN Backslash
        THEN ScanChunks(s, begin, j + 2,
                        acc \o SubSeq(s, i, j - 1) \o <<Backslash[s[j + 1]]>>)
        ELSE DecodeError("Invalid \\escape", j - 1)

\* scanstring(s, end): begin is the index after the opening quote
ScanString(s, begin) == ScanChunks(s, begin, begin, <<>>)

RECURSIVE DigitsEnd(_, _)
DigitsEnd(s, i) ==
    IF i <= Len(s) /\ s[i] = "1" THEN DigitsEnd(s, i + 1) ELSE i

RECURSIVE Repunit(_)
Repunit(n) == IF n = 0 THEN 0 ELSE 10 * Repunit(n - 1) + 1

RECURSIVE ScanOnce(_, _)
RECURSIVE ObjectMembers(_, _, _)

\* JSONObject((s, end)): begin is the index after the opening brace
JSONObject(s, begin) ==
    LET end == IF begin <= Len(s) /\ s[begin] \in JsonWhitespace
               THEN SkipWs(s, begin) ELSE begin
    IN  IF end <= Len(s) /\ s[end] = "\""
        THEN ObjectMembers(s, end + 1, EmptyMap)
        ELSE IF end <= Len(s) /\ s[end] = "}"
        THEN Ok(PyDict(EmptyMap), end + 1)
        ELSE DecodeError("Expecting property name enclosed in double quotes", end - 1)

\* the while-loop of JSONObject: begin is the index after a key's opening quote
ObjectMembers(s, begin, pairs) ==
    LET key == ScanString(s, begin)
    IN  IF ~key.ok THEN key
        ELSE
        LET colon == IF key.end <= Len(s) /\ s[key.end] = ":"
                     THEN key.end ELSE SkipWs(s, key.end)
        IN  IF ~(colon <= Len(s) /\ s[colon] = ":")
            THEN DecodeError("Expecting ':' delimiter", colon - 1)
            ELSE
            LET value == ScanOnce(s, SkipWs(s, colon + 1))
            IN  IF ~value.ok THEN value
                ELSE
                LET next == SkipWs(s, value.end)
                    added == SetItem(pairs, key.val.sv, value.val)
                IN  IF next <= Len(s) /\ s[next] = "}"
                    THEN Ok(PyDict(added), next + 1)
                    ELSE IF ~(next <= Len(s) /\ s[next] = ",")
                    THEN DecodeError("Expecting ',' delimiter", next - 1)
                    ELSE
                    LET quote == SkipWs(s, next + 1)
                    IN  IF quote <= Len(s) /\ s[quote] = "\""
                        THEN ObjectMembers(s, quote + 1, added)
                        ELSE DecodeError(
                                 "Expecting property name enclosed in double quotes",
                                 quote - 1)

\* scan_once(s, idx); StopIteration becomes "Expecting value" in every caller
ScanOnce(s, idx) ==
    IF idx > Len(s) THEN DecodeError("Expecting value", idx - 1)
    ELSE IF s[idx] = "\"" THEN ScanString(s, idx + 1)
    ELSE IF s[idx] = "{" THEN JSONObject(s, idx + 1)
    ELSE IF s[idx] = "n" /\ idx + 3 <= Len(s) /\ SubSeq(s, idx, idx + 3) = NullLiteral
    THEN Ok(PyNone, idx + 4)
    ELSE IF s[idx] = "1"
    THEN Ok(PyInt(Repunit(DigitsEnd(s, idx) - idx)), DigitsEnd(s, idx))
    ELSE DecodeError("Expecting value", idx - 1)

\* json.loads(s): JSONDecoder.decode
json_loads(s) ==
    LET obj == ScanOnce(s, SkipWs(s, 1))
    IN  IF ~obj.ok THEN obj
        ELSE LET end == SkipWs(s, obj.end)
             IN  IF end /= Len(s) + 1
                 THEN DecodeError("Extra data", end - 1)
                 ELSE obj

-----------------------------------------------------------------------------
(* Texts a chat completion may carry *)

\* an email object as the prompt asks for it
EmailText ==
    <<"{", "\"", "s", "u", "b", "j", "e", "c", "t", "_", "l", "i", "n",
      "e", "\"", ":", "\"", "S", "\"", ",", "\"", "b", "o", "d", "y", "\"",
      ":", "\"", "B", "\"", "}">>

\* an object without body
NoBodyText ==
    <<"{", "\"", "s", "u", "b", "j", "e", "c", "t", "_", "l", "i", "n",
      "e", "\"", ":", "\"", "S", "\"", "}">>

\* an object without subject_line
NoSubjectText ==
    <<"{", "\"", "b", "o", "d", "y", "\"", ":", "\"", "B", "\"", "}">>

\* an object with whitespace between its tokens
SpacedText ==
    <<"{", " ", "\"", "b", "o", "d", "y", "\"", " ", ":", " ", "\"", "B",
      "\"", " ", "}">>

\* the empty object
EmptyObjectText ==
    <<"{", "}">>

\* valid JSON that is not an object
NumberText ==
    <<"1">>

\* text that is not JSON
JunkText ==
    <<"o", "o", "p", "s">>

-----------------------------------------------------------------------------
(* Chunks yielded by stream_generate_email_logic, llm_utils.py:176-226 *)

TokenChunk(content) == [type |-> "token", content |-> content]

DoneChunk(tid) == [type |-> "done", trace_id |-> tid]

ErrorChunk(message) == [type |-> "error", error |-> message]

\* the trace id of the active span
TraceIdText == <<"t1">>

\* _get_current_trace_id(): the active span's trace id, None without a span
TraceIds == {PyNone, PyStr(TraceIdText)}

\* all sequences over S of length at most n
SeqsUpTo(S, n) == UNION {[1..k -> S] : k \in 0..n}

RECURSIVE Flatten(_)
Flatten(texts) ==
    IF texts = <<>> THEN <<>> ELSE Head(texts) \o Flatten(Tail(texts))

-----------------------------------------------------------------------------
(* State *)

VARIABLES
    openai_client,    \* TRUE when the module-level client is available
    app_version_ok,   \* TRUE when set_app_version() does not raise
    customer_data,    \* the request: has an account name, its user_input
    gpc,              \* position of stream_generate_email_logic
    pulled,           \* chunks taken from the completion stream so far
    arrived,          \* contents of the upstream tokens, in arrival order
    pending,          \* the token pulled and not yet yielded
    full_response,    \* the generator's accumulated text
    user_tag,         \* the user_instructions tag put on the trace
    chunks,           \* chunks yielded so far, as the trace decorator keeps them
    rpc,              \* position of stream_output_reducer
    idx,              \* chunks the reducer's loop has processed
    full_content,     \* the reducer's accumulated text
    trace_id,         \* the reducer's trace_id
    error,            \* the reducer's error
    result,           \* what stream_output_reducer returned or raised
    payload,          \* the payload of a non-streaming completion
    core,             \* per response shape, core_generate_email_logic's call
    variant,          \* per source variant, its email generation call
    api,              \* per response shape, api_generate_email's response
    main_api,         \* the response of backend/main.py's api_generate_email
    wpc,              \* position of api_generate_email_stream.generate
    delivered,        \* chunks generate() has received from the generator
    events,           \* the server-sent events generate() has yielded
    cancelled,        \* TRUE once the request's task has been cancelled
    CUSTOMER_DATA,    \* the customer records loaded from input_data.jsonl
    companies,        \* the last response of GET /api/companies
    lookup,           \* the last GET /api/customer/{name}: name and response
    lines,            \* the lines of a streamed response the client reads
    lpc,              \* position of parse_streaming_response
    line_no,          \* lines parse_streaming_response has read
    client_trace_id,  \* parse_streaming_response's trace_id
    client_content,   \* parse_streaming_response's content
    client_out,       \* what parse_streaming_response returned
    records,          \* how many records run_simulation has to process
    stats,            \* TrafficSimulator.stats
    spc,              \* position of run_simulation
    batch_at,         \* run_simulation's loop index, the records before the batch
    task,             \* per record, its process_record coroutine
    PROMPT,           \* llm_utils.PROMPT
    LLM_MODEL,        \* llm_utils.LLM_MODEL
    call,             \* per call of predict_fn: its arguments, locals, position
    judge             \* one call of a judge evaluator of prompt_judge_sdk.py

genVars == <<openai_client, app_version_ok, customer_data, gpc, pulled, arrived,
             pending, full_response, user_tag>>

redVars == <<rpc, idx, full_content, trace_id, error, result>>

coreVars == <<payload, core>>

apiVars == <<variant, api, main_api>>

sseVars == <<wpc, delivered, events, cancelled>>

dataVars == <<CUSTOMER_DATA, companies, lookup>>

clientVars == <<lines, lpc, line_no, client_trace_id, client_content, client_out>>

simVars == <<records, stats, spc, batch_at, task>>

evalVars == <<PROMPT, LLM_MODEL, call>>

judgeVars == <<judge>>

toolVars == <<simVars, evalVars, judgeVars>>

extVars == <<apiVars, sseVars, dataVars, clientVars, toolVars>>

vars == <<genVars, chunks, redVars, coreVars, extVars>>

Return(v) == [out |-> "return", val |-> v]

Raise(exc) == [out |-> "raise", exc |-> exc]

Pending == [out |-> "pending"]

-----------------------------------------------------------------------------
(* stream_output_reducer, llm_utils.py:127-167 *)

\* full_content += chunk.get("content", "") written as a prepend
PrependContent(text, chunk) == Get(chunk, "content", <<>>) \o text

\* llm_utils.py:143
AddContent(text, chunk) == text \o Get(chunk, "content", <<>>)

\* the reducer's return with the done chunk's trace_id left out of the email
ReducerOutcomeNoTraceId(content, tid, err) ==
    IF Truthy(err)
    THEN Return(PyDict(KeyError :> err))
    ELSE LET email_json == json_loads(_clean_json_response(content))
         IN  IF ~email_json.ok
             THEN Return(PyDict(
                      (KeyError :> PyStr(ParseErrorPrefix \o ErrorText(email_json)))
                      @@ (KeyRawContent :> PyStr(content))
                      @@ (KeyTraceId :> tid)))
             ELSE IF email_json.val.t = "dict"
             THEN Return(PyDict(SetItem(email_json.val.m, KeyTraceId, PyNone)))
             ELSE Raise("TypeError")

\* the reducer's return reporting the cleaned text as raw_content
ReducerOutcomeCleanRaw(content, tid, err) ==
    IF Truthy(err)
    THEN Return(PyDict(KeyError :> err))
    ELSE LET email_json == json_loads(_clean_json_response(content))
         IN  IF ~email_json.ok
             THEN Return(PyDict(
                      (KeyError :> PyStr(ParseErrorPrefix \o ErrorText(email_json)))
                      @@ (KeyRawContent :> PyStr(_clean_json_response(content)))
                      @@ (KeyTraceId :> tid)))
             ELSE IF email_json.val.t = "dict"
             THEN Return(PyDict(SetItem(email_json.val.m, KeyTraceId, tid)))
             ELSE Raise("TypeError")

\* the reducer's return parsing the buffer as it stands, fences included
ReducerOutcomeUncleaned(content, tid, err) ==
    IF Truthy(err)
    THEN Return(PyDict(KeyError :> err))
    ELSE LET email_json == json_loads(content)
         IN  IF ~email_json.ok
             THEN Return(PyDict(
                      (KeyError :> PyStr(ParseErrorPrefix \o ErrorText(email_json)))
                      @@ (KeyRawContent :> PyStr(content))
                      @@ (KeyTraceId :> tid)))
             ELSE IF email_json.val.t = "dict"
             THEN Return(PyDict(SetItem(email_json.val.m, KeyTraceId, tid)))
             ELSE Raise("TypeError")

\* llm_utils.py:149-167: what the reducer does once its loop is over.
\* email_json["trace_id"] = trace_id raises TypeError on a str, an int or None.
ReducerOutcome(content, tid, err) ==
    IF Truthy(err)
    THEN Return(PyDict(KeyError :> err))
    ELSE LET email_json == json_loads(_clean_json_response(content))
         IN  IF ~email_json.ok
             THEN Return(PyDict(
                      (KeyError :> PyStr(ParseErrorPrefix \o ErrorText(email_json)))
                      @@ (KeyRawContent :> PyStr(content))
                      @@ (KeyTraceId :> tid)))
             ELSE IF email_json.val.t = "dict"
             THEN Return(PyDict(SetItem(email_json.val.m, KeyTraceId, tid)))
             ELSE Raise("TypeError")

\* the chunk the loop is at
Chunk == chunks[idx + 1]

InLoop == rpc = "loop" /\ idx < Len(chunks)

\* llm_utils.py:142-143
ReduceToken ==
    /\ InLoop
    /\ Get(Chunk, "type", "none") = "token"
    /\ full_content' = AddContent(full_content, Chunk)
    /\ idx' = idx + 1
    /\ UNCHANGED <<genVars, chunks, rpc, trace_id, error, result, coreVars, extVars>>

\* llm_utils.py:144-145
ReduceDone ==
    /\ InLoop
    /\ Get(Chunk, "type", "none") = "done"
    /\ trace_id' = Get(Chunk, "trace_id", PyNone)
    /\ idx' = idx + 1
    /\ UNCHANGED <<genVars, chunks, rpc, full_content, error, result, coreVars, extVars>>

\* llm_utils.py:146-147
ReduceError ==
    /\ InLoop
    /\ Get(Chunk, "type", "none") = "error"
    /\ error' = Get(Chunk, "error", PyNone)
    /\ idx' = idx + 1
    /\ UNCHANGED <<genVars, chunks, rpc, full_content, trace_id, result, coreVars, extVars>>

\* llm_utils.py:140-147: a chunk of any other type is passed over
ReduceOther ==
    /\ InLoop
    /\ Get(Chunk, "type", "none") \notin {"token", "done", "error"}
    /\ idx' = idx + 1
    /\ UNCHANGED <<genVars, chunks, rpc, full_content, trace_id, error, result,
                   coreVars, extVars>>

\* llm_utils.py:149-167
ReduceReturn ==
    /\ rpc = "loop"
    /\ idx = Len(chunks)
    /\ result' = ReducerOutcome(full_content, trace_id, error)
    /\ rpc' = IF result'.out = "return" THEN "returned" ELSE "raised"
    /\ UNCHANGED <<genVars, chunks, idx, full_content, trace_id, error, coreVars, extVars>>

Reduce == ReduceToken \/ ReduceDone \/ ReduceError \/ ReduceOther \/ ReduceReturn

-----------------------------------------------------------------------------
(* stream_generate_email_logic, llm_utils.py:170-226 *)

\* what one chunk of the completion stream carries: a delta with content, or
\* none (no choices, or a delta whose content is None)
Delta(content) == [has |-> TRUE, content |-> content]

NoDelta == [has |-> FALSE]

UpstreamPool ==
    {Delta(EmailText), Delta(NoBodyText), Delta(NoSubjectText), Delta(NumberText),
     Delta(FenceJsonOpen), Delta(FenceJsonClose), NoDelta}

UserInputs == {PyNone, PyStr(<<>>), PyStr(<<"x">>)}

CustomerData == [account_name : BOOLEAN, user_input : UserInputs]

\* llm_utils.py:207-212
UserTag(data) ==
    IF data.user_input = PyNone \/ Len(data.user_input.sv) = 0 THEN "no" ELSE "yes"

\* the generator running on whether or not its consumer has asked for more
ResumedUnasked ==
    wpc \in {"none", "await", "yield", "sleep"}

\* an async generator runs only while its consumer awaits its next chunk:
\* generate() of app.py:134 does so once it has handled every chunk yielded so
\* far; with no generate() around it the consumer drains the generator
Resumed ==
    \/ wpc = "none"
    \/ wpc = "await" /\ delivered = Len(chunks)

\* llm_utils.py:173-177: the client is missing, one error chunk, return
GenClientMissing ==
    /\ gpc = "start"
    /\ Resumed
    /\ ~openai_client
    /\ chunks' = Append(chunks, ErrorChunk(PyStr(ClientMissingMessage)))
    /\ gpc' = "finished"
    /\ UNCHANGED <<openai_client, app_version_ok, customer_data, pulled, arrived,
                   pending, full_response, user_tag, redVars, coreVars, extVars>>

\* llm_utils.py:179, 229-283: set_app_version() raises when git fails
GenSetupRaise ==
    /\ gpc = "start"
    /\ Resumed
    /\ openai_client
    /\ ~app_version_ok
    /\ gpc' = "raised"
    /\ UNCHANGED <<openai_client, app_version_ok, customer_data, pulled, arrived,
                   pending, full_response, user_tag, chunks, redVars, coreVars, extVars>>

\* llm_utils.py:179-189: the streaming completion is created
GenCreate ==
    /\ gpc = "start"
    /\ Resumed
    /\ openai_client
    /\ app_version_ok
    /\ gpc' = "pull"
    /\ UNCHANGED <<openai_client, app_version_ok, customer_data, pulled, arrived,
                   pending, full_response, user_tag, chunks, redVars, coreVars, extVars>>

\* llm_utils.py:192-198: the next chunk of the completion stream
GenPull ==
    /\ gpc = "pull"
    /\ Resumed
    /\ pulled < MaxUpstream
    /\ \E c \in UpstreamPool :
          /\ pulled' = pulled + 1
          /\ IF c.has
             THEN /\ pending' = c.content
                  /\ arrived' = Append(arrived, c.content)
                  /\ gpc' = "yield"
             ELSE UNCHANGED <<pending, arrived, gpc>>
    /\ UNCHANGED <<openai_client, app_version_ok, customer_data, full_response,
                   user_tag, chunks, redVars, coreVars, extVars>>

\* llm_utils.py:199-200
GenYieldToken ==
    /\ gpc = "yield"
    /\ Resumed
    /\ full_response' = full_response \o pending
    /\ chunks' = Append(chunks, TokenChunk(pending))
    /\ gpc' = "pull"
    /\ UNCHANGED <<openai_client, app_version_ok, customer_data, pulled, arrived,
                   pending, user_tag, redVars, coreVars, extVars>>

\* llm_utils.py:192: the completion stream is exhausted
GenEndOfStream ==
    /\ gpc = "pull"
    /\ Resumed
    /\ gpc' = "parse"
    /\ UNCHANGED <<openai_client, app_version_ok, customer_data, pulled, arrived,
                   pending, full_response, user_tag, chunks, redVars, coreVars, extVars>>

\* llm_utils.py:204-205
GenEmailJson == json_loads(_clean_json_response(full_response))

\* llm_utils.py:214-217: customer_data['account']['name'] and email_json["body"]
GenPreviewRaises ==
    IF ~customer_data.account_name THEN TRUE
    ELSE IF GenEmailJson.val.t /= "dict" THEN TRUE
    ELSE KeyBody \notin DOMAIN GenEmailJson.val.m

\* llm_utils.py:222-226: the text is not JSON, one error chunk
GenParseError ==
    /\ gpc = "parse"
    /\ Resumed
    /\ ~GenEmailJson.ok
    /\ chunks' = Append(chunks,
                        ErrorChunk(PyStr(ParseErrorPrefix \o ErrorText(GenEmailJson))))
    /\ gpc' = "finished"
    /\ UNCHANGED <<openai_client, app_version_ok, customer_data, pulled, arrived,
                   pending, full_response, user_tag, redVars, coreVars, extVars>>

\* llm_utils.py:203-217: a KeyError or TypeError leaves the generator uncaught
GenParseRaise ==
    /\ gpc = "parse"
    /\ Resumed
    /\ GenEmailJson.ok
    /\ GenPreviewRaises
    /\ user_tag' = UserTag(customer_data)
    /\ gpc' = "raised"
    /\ UNCHANGED <<openai_client, app_version_ok, customer_data, pulled, arrived,
                   pending, full_response, chunks, redVars, coreVars, extVars>>

\* llm_utils.py:203-220: the done chunk with the active span's trace id
GenDone ==
    /\ gpc = "parse"
    /\ Resumed
    /\ GenEmailJson.ok
    /\ ~GenPreviewRaises
    /\ user_tag' = UserTag(customer_data)
    /\ \E tid \in TraceIds : chunks' = Append(chunks, DoneChunk(tid))
    /\ gpc' = "finished"
    /\ UNCHANGED <<openai_client, app_version_ok, customer_data, pulled, arrived,
                   pending, full_response, redVars, coreVars, extVars>>

\* llm_utils.py:170: the trace decorator hands the yielded chunks to the
\* output reducer once the generator is exhausted
ReducerStart ==
    /\ gpc = "finished"
    /\ rpc = "idle"
    /\ rpc' = "loop"
    /\ UNCHANGED <<genVars, chunks, idx, full_content, trace_id, error, result,
                   coreVars, extVars>>

Generate ==
    \/ GenClientMissing \/ GenSetupRaise \/ GenCreate
    \/ GenPull \/ GenYieldToken \/ GenEndOfStream
    \/ GenParseError \/ GenParseRaise \/ GenDone

-----------------------------------------------------------------------------
(* core_generate_email_logic, llm_utils.py:107-124, called on one payload   *)
(* in the shapes a completion may come in                                   *)

Forms == {"raw", "generic", "json", "padded", "literal"}

Pads == SeqsUpTo(PyWhitespace, MaxPad)

ObjectTexts == {EmailText, NoBodyText, NoSubjectText, SpacedText, EmptyObjectText}

PayloadTexts == ObjectTexts \cup {NumberText, JunkText, <<>>}

Payloads == [lead : Pads, text : PayloadTexts, trail : Pads]

PayloadOf(p) == p.lead \o p.text \o p.trail

\* the json fence spelled with a backslash and the letter n for the newline,
\* which is what backend/llm_utils.py:129 and backend/main.py:143 test for
FenceJsonOpenLiteral ==
    Fence \o <<"j", "s", "o", "n", "\\", "n">>

FenceJsonCloseLiteral ==
    <<"\\", "n">> \o Fence

\* response.choices[0].message.content, llm_utils.py:117: the payload bare,
\* in a generic fence with newlines, in a json fence with newlines, in a json
\* fence with whitespace around the fence, or in a json fence whose newlines
\* are spelled backslash-n
ResponseContent(form, p) ==
    IF form = "json" THEN FenceJsonOpen \o PayloadOf(p) \o FenceJsonClose
    ELSE IF form = "generic" THEN Fence \o <<"\n">> \o PayloadOf(p) \o <<"\n">> \o Fence
    ELSE IF form = "padded" THEN p.lead \o FenceJsonOpen \o p.text \o FenceJsonClose \o p.trail
    ELSE IF form = "literal" THEN FenceJsonOpenLiteral \o PayloadOf(p) \o FenceJsonCloseLiteral
    ELSE PayloadOf(p)

NoCall(pc) ==
    [pc |-> pc, clean_string |-> <<>>, email_json |-> DecodeError("unset", 0),
     out |-> Pending]

\* llm_utils.py:109-110: the client is missing or set_app_version() raises
CoreRaised ==
    [NoCall("done") EXCEPT !.out = Raise("RuntimeError")]

\* llm_utils.py:112-124
CoreReturned(form, tid) ==
    LET clean_string == _clean_json_response(ResponseContent(form, payload))
        email_json == json_loads(clean_string)
    IN  [pc |-> "done",
         clean_string |-> clean_string,
         email_json |-> email_json,
         out |-> IF ~email_json.ok THEN Raise("JSONDecodeError")
                 ELSE IF email_json.val.t /= "dict" THEN Raise("TypeError")
                 ELSE Return(PyDict(SetItem(email_json.val.m, KeyTraceId, tid)))]

CoreSetupRaise(form) ==
    /\ core[form].pc = "call"
    /\ ~(openai_client /\ app_version_ok)
    /\ core' = [core EXCEPT ![form] = CoreRaised]
    /\ UNCHANGED <<genVars, chunks, redVars, payload, extVars>>

CoreGenerate(form) ==
    /\ core[form].pc = "call"
    /\ openai_client /\ app_version_ok
    /\ \E tid \in TraceIds : core' = [core EXCEPT ![form] = CoreReturned(form, tid)]
    /\ UNCHANGED <<genVars, chunks, redVars, payload, extVars>>

Core == \E form \in Forms : CoreSetupRaise(form) \/ CoreGenerate(form)

-----------------------------------------------------------------------------
(* The other copies of the email generation: backend/llm_utils.py:103-146,  *)
(* backend/main.py:117-159 and archive/notebook.py:118-140, called on the   *)
(* completion the databricks-app copy is called on                          *)

Variants == {"backend", "main", "notebook"}

RaiseHTTP(status_code) ==
    [out |-> "raise", exc |-> "HTTPException", status_code |-> status_code]

\* backend/llm_utils.py:128-135 and backend/main.py:142-149: the json fence is
\* tested with backslash-n spelled out, then the generic fence, then strip()
BackendClean(s) ==
    LET clean_string ==
            IF StartsWith(s, FenceJsonOpenLiteral) /\ EndsWith(s, FenceJsonCloseLiteral)
            THEN SliceBetween(s, Len(FenceJsonOpenLiteral), Len(FenceJsonCloseLiteral))
            ELSE IF StartsWith(s, Fence) /\ EndsWith(s, Fence)
            THEN SliceBetween(s, Len(Fence), Len(Fence))
            ELSE s
    IN  Strip(clean_string)

\* archive/notebook.py:134-136: three characters are cut off each end of a
\* json-fenced completion, and nothing is stripped
NotebookClean(s) ==
    IF StartsWith(s, FenceJsonOpen) /\ EndsWith(s, FenceJsonClose)
    THEN SliceBetween(s, Len(Fence), Len(Fence))
    ELSE s

\* the response shape under way: the one whose core call is not idle
ActiveForms == {f \in Forms : core[f].pc /= "idle"}

\* backend/llm_utils.py:104-108, backend/main.py:118-122
BackendRaised ==
    [NoCall("done") EXCEPT !.out = RaiseHTTP(503)]

\* backend/llm_utils.py:126-146, backend/main.py:142-159
BackendReturned(form) ==
    LET clean_string == BackendClean(ResponseContent(form, payload))
        email_json == json_loads(clean_string)
    IN  [pc |-> "done",
         clean_string |-> clean_string,
         email_json |-> email_json,
         out |-> IF ~email_json.ok THEN RaiseHTTP(500) ELSE Return(email_json.val)]

\* archive/notebook.py:130-140
NotebookReturned(form) ==
    LET clean_string == NotebookClean(ResponseContent(form, payload))
        email_json == json_loads(clean_string)
    IN  [pc |-> "done",
         clean_string |-> clean_string,
         email_json |-> email_json,
         out |-> IF ~email_json.ok THEN Raise("JSONDecodeError")
                 ELSE Return(email_json.val)]

\* backend/llm_utils.py's core_generate_email_logic
BackendGenerate ==
    /\ variant["backend"].pc = "call"
    /\ \E form \in ActiveForms :
          variant' = [variant EXCEPT !["backend"] =
                          IF openai_client THEN BackendReturned(form) ELSE BackendRaised]
    /\ UNCHANGED <<genVars, chunks, redVars, coreVars, api, main_api,
                   sseVars, dataVars, clientVars,
                   toolVars>>

\* archive/notebook.py's generate_email; the notebook builds its client when it
\* is loaded (notebook.py:113-114), so the function exists only with a client
NotebookGenerate ==
    /\ variant["notebook"].pc = "call"
    /\ openai_client
    /\ \E form \in ActiveForms :
          variant' = [variant EXCEPT !["notebook"] = NotebookReturned(form)]
    /\ UNCHANGED <<genVars, chunks, redVars, coreVars, api, main_api,
                   sseVars, dataVars, clientVars,
                   toolVars>>

-----------------------------------------------------------------------------
(* POST /api/generate-email/: app.py:99-123 and backend/main.py:162-182     *)

NoResponse == [status_code |-> 0]

HTTPException(status_code, detail) == [status_code |-> status_code, detail |-> detail]

Response(body) == [status_code |-> 200, body |-> body]

GitFailureMessage ==
    <<"Git is not installed or not in PATH">>

ItemAssignmentMessage ==
    <<"object does not support item assignment">>

FormatMessage ==
    <<"LLM output is not in the expected format (missing 'subject_line' or 'body')">>

ValidationMessage ==
    <<"validation error for EmailOutput">>

\* str(e) of what a call of llm_utils.py's core_generate_email_logic raised
CoreErrorText(c) ==
    IF c.out.exc = "RuntimeError"
    THEN IF ~openai_client THEN ClientMissingMessage ELSE GitFailureMessage
    ELSE IF c.out.exc = "JSONDecodeError" THEN ErrorText(c.email_json)
    ELSE ItemAssignmentMessage

\* app.py:117: "OpenAI client not available" in error_msg
MentionsClientMissing(error_msg) ==
    \E i \in 1..Len(error_msg) : error_msg[i] = ClientMissingMessage[1]

HasEmailKeys(email_json) ==
    /\ email_json.t = "dict"
    /\ KeySubjectLine \in DOMAIN email_json.m
    /\ KeyBody \in DOMAIN email_json.m

\* EmailOutput(**email_json), app.py:54-57: both fields are strings, trace_id
\* is a string or None, and any other key is dropped
ValidEmailOutput(m) ==
    /\ m[KeySubjectLine].t = "str"
    /\ m[KeyBody].t = "str"
    /\ Get(m, KeyTraceId, PyNone).t \in {"str", "none"}

EmailOutput(m) ==
    [subject_line |-> m[KeySubjectLine].sv,
     body |-> m[KeyBody].sv,
     trace_id |-> Get(m, KeyTraceId, PyNone)]

\* api_generate_email answering without looking for the two fields
ApiResultUnchecked(out, error_msg) ==
    IF out.out = "raise"
    THEN HTTPException(IF MentionsClientMissing(error_msg) THEN 503 ELSE 500, error_msg)
    ELSE Response([subject_line |-> Get(out.val.m, KeySubjectLine, PyStr(<<>>)).sv,
                   body |-> Get(out.val.m, KeyBody, PyStr(<<>>)).sv,
                   trace_id |-> Get(out.val.m, KeyTraceId, PyNone)])

\* app.py:102-123, from what core_generate_email_logic returned or raised
ApiResult(out, error_msg) ==
    IF out.out = "raise"
    THEN HTTPException(IF MentionsClientMissing(error_msg) THEN 503 ELSE 500, error_msg)
    ELSE IF ~HasEmailKeys(out.val) THEN HTTPException(500, FormatMessage)
    ELSE IF ~ValidEmailOutput(out.val.m) THEN HTTPException(500, ValidationMessage)
    ELSE Response(EmailOutput(out.val.m))

\* backend/main.py:164-182: an HTTPException of the core call is raised again
MainApiResult(out) ==
    IF out.out = "raise" THEN HTTPException(out.status_code, <<"core">>)
    ELSE IF ~HasEmailKeys(out.val) THEN HTTPException(500, FormatMessage)
    ELSE IF ~ValidEmailOutput(out.val.m) THEN HTTPException(500, ValidationMessage)
    ELSE Response([subject_line |-> out.val.m[KeySubjectLine].sv,
                   body |-> out.val.m[KeyBody].sv])

\* app.py's api_generate_email, on a completion of the given shape
ApiGenerateEmail(form) ==
    /\ core[form].pc = "call"
    /\ api[form] = NoResponse
    /\ \E c \in IF openai_client /\ app_version_ok
                THEN {CoreReturned(form, tid) : tid \in TraceIds}
                ELSE {CoreRaised} :
          /\ core' = [core EXCEPT ![form] = c]
          /\ api' = [api EXCEPT ![form] =
                         ApiResult(c.out, IF c.out.out = "raise"
                                          THEN CoreErrorText(c) ELSE <<>>)]
    /\ UNCHANGED <<genVars, chunks, redVars, payload, variant, main_api,
                   sseVars, dataVars, clientVars,
                   toolVars>>

\* backend/main.py's api_generate_email
MainApiGenerateEmail ==
    /\ variant["main"].pc = "call"
    /\ main_api = NoResponse
    /\ \E form \in ActiveForms :
          \E c \in {IF openai_client THEN BackendReturned(form) ELSE BackendRaised} :
              /\ variant' = [variant EXCEPT !["main"] = c]
              /\ main_api' = MainApiResult(c.out)
    /\ UNCHANGED <<genVars, chunks, redVars, coreVars, api,
                   sseVars, dataVars, clientVars,
                   toolVars>>

ApiIdle ==
    /\ variant = [v \in Variants |-> NoCall("idle")]
    /\ api = [f \in Forms |-> NoResponse]
    /\ main_api = NoResponse

-----------------------------------------------------------------------------
(* POST /api/generate-email-stream/: generate(), app.py:131-151             *)

KeyType ==
    <<"t", "y", "p", "e">>

KeyContent ==
    <<"c", "o", "n", "t", "e", "n", "t">>

TypeToken ==
    <<"t", "o", "k", "e", "n">>

TypeDone ==
    <<"d", "o", "n", "e">>

TypeError ==
    <<"e", "r", "r", "o", "r">>

\* json.dumps of a str: the quote, the backslash and the newline are escaped
RECURSIVE JsonEscape(_)
JsonEscape(s) ==
    IF s = <<>> THEN <<>>
    ELSE (IF Head(s) = "\"" THEN <<"\\", "\"">>
          ELSE IF Head(s) = "\\" THEN <<"\\", "\\">>
          ELSE IF Head(s) = "\n" THEN <<"\\", "n">>
          ELSE <<Head(s)>>) \o JsonEscape(Tail(s))

DumpsValue(v) ==
    IF v.t = "none" THEN NullLiteral ELSE <<"\"">> \o JsonEscape(v.sv) \o <<"\"">>

RECURSIVE DumpsItems(_)
DumpsItems(items) ==
    IF items = <<>> THEN <<>>
    ELSE DumpsValue(PyStr(items[1][1])) \o <<":", " ">> \o DumpsValue(items[1][2])
         \o (IF Len(items) > 1 THEN <<",", " ">> ELSE <<>>)
         \o DumpsItems(Tail(items))

\* json.dumps of a dict whose keys are strings and whose values are strings or None
json_dumps(items) == <<"{">> \o DumpsItems(items) \o <<"}">>

DataPrefix ==
    <<"d", "a", "t", "a", ":", " ">>

\* f"data: {json.dumps(...)}\n\n"
SseEvent(items) == DataPrefix \o json_dumps(items) \o <<"\n", "\n">>

\* app.py:138-143
ChunkEvent(chunk) ==
    IF chunk.type = "token"
    THEN SseEvent(<< <<KeyType, PyStr(TypeToken)>>, <<KeyContent, PyStr(chunk.content)>> >>)
    ELSE IF chunk.type = "done"
    THEN SseEvent(<< <<KeyType, PyStr(TypeDone)>>, <<KeyTraceId, chunk.trace_id>> >>)
    ELSE SseEvent(<< <<KeyType, PyStr(TypeError)>>, <<KeyError, chunk.error>> >>)

\* app.py:148
ErrorEvent(message) ==
    SseEvent(<< <<KeyType, PyStr(TypeError)>>, <<KeyError, PyStr(message)>> >>)

\* app.py:151
DoneEvent == SseEvent(<< <<KeyType, PyStr(TypeDone)>> >>)

\* str(e) of what left stream_generate_email_logic: set_app_version()'s
\* RuntimeError, the KeyError of customer_data['account'], the TypeError of
\* subscripting a number, or the KeyError of email_json["body"]
GenExceptionText ==
    IF ~app_version_ok THEN GitFailureMessage
    ELSE IF ~customer_data.account_name THEN <<"'account'">>
    ELSE IF GenEmailJson.val.t /= "dict" THEN <<"'int' object is not subscriptable">>
    ELSE <<"'body'">>

\* app.py:134-143: the next chunk arrives and its event is yielded
WrapReceive ==
    /\ wpc = "await"
    /\ delivered < Len(chunks)
    /\ events' = Append(events, ChunkEvent(chunks[delivered + 1]))
    /\ delivered' = delivered + 1
    /\ wpc' = "yield"
    /\ UNCHANGED <<genVars, chunks, redVars, coreVars, apiVars, cancelled,
                   dataVars, clientVars,
                   toolVars>>

\* the response has written the event and asks generate() for the next one
WrapWritten ==
    /\ wpc = "yield"
    /\ wpc' = "sleep"
    /\ UNCHANGED <<genVars, chunks, redVars, coreVars, apiVars, delivered, events,
                   cancelled, dataVars, clientVars,
                   toolVars>>

\* app.py:146: await asyncio.sleep(0.01) returns and the loop asks for a chunk
WrapSleep ==
    /\ wpc = "sleep"
    /\ wpc' = "await"
    /\ UNCHANGED <<genVars, chunks, redVars, coreVars, apiVars, delivered, events,
                   cancelled, dataVars, clientVars,
                   toolVars>>

\* app.py:134: the generator is exhausted
WrapStop ==
    /\ wpc = "await"
    /\ delivered = Len(chunks)
    /\ gpc = "finished"
    /\ wpc' = "finally"
    /\ UNCHANGED <<genVars, chunks, redVars, coreVars, apiVars, delivered, events,
                   cancelled, dataVars, clientVars,
                   toolVars>>

\* generate() without its except clause: the exception ends the response
WrapExceptSilent ==
    /\ wpc = "await"
    /\ delivered = Len(chunks)
    /\ gpc = "raised"
    /\ wpc' = "closed"
    /\ UNCHANGED <<genVars, chunks, redVars, coreVars, apiVars, delivered, events,
                   cancelled, dataVars, clientVars,
                   toolVars>>

\* app.py:147-148: the generator raised
WrapExcept ==
    /\ wpc = "await"
    /\ delivered = Len(chunks)
    /\ gpc = "raised"
    /\ events' = Append(events, ErrorEvent(GenExceptionText))
    /\ wpc' = "finally"
    /\ UNCHANGED <<genVars, chunks, redVars, coreVars, apiVars, delivered,
                   cancelled, dataVars, clientVars,
                   toolVars>>

\* app.py:149-151
WrapFinally ==
    /\ wpc = "finally"
    /\ events' = Append(events, DoneEvent)
    /\ wpc' = "closed"
    /\ UNCHANGED <<genVars, chunks, redVars, coreVars, apiVars, delivered,
                   cancelled, dataVars, clientVars,
                   toolVars>>

\* the request's task is cancelled while generate() sleeps at app.py:146:
\* CancelledError is no Exception, so line 147 does not catch it and the
\* finally clause runs
WrapCancel ==
    /\ wpc = "sleep"
    /\ ~cancelled
    /\ cancelled' = TRUE
    /\ wpc' = "finally"
    /\ UNCHANGED <<genVars, chunks, redVars, coreVars, apiVars, delivered, events,
                   dataVars, clientVars,
                   toolVars>>

\* the response is dropped while generate() is suspended at a yield of
\* app.py:138-143 and the generator is closed: the yield of the finally clause
\* answers GeneratorExit, which hands no event to anyone
WrapClose ==
    /\ wpc = "yield"
    /\ ~cancelled
    /\ cancelled' = TRUE
    /\ wpc' = "closed"
    /\ UNCHANGED <<genVars, chunks, redVars, coreVars, apiVars, delivered, events,
                   dataVars, clientVars,
                   toolVars>>

Wrap ==
    \/ WrapReceive \/ WrapWritten \/ WrapSleep
    \/ WrapStop \/ WrapExcept \/ WrapFinally
    \/ WrapCancel \/ WrapClose

SseIdle ==
    /\ wpc = "none"
    /\ delivered = 0
    /\ events = <<>>
    /\ cancelled = FALSE

-----------------------------------------------------------------------------
(* GET /api/companies and GET /api/customer/{name}, app.py:191-204          *)

\* the largest number of records input_data.jsonl holds
MaxCustomers == 3

\* ord() of the characters company names are written with
CodePoint ==
    ("A" :> 65) @@ ("B" :> 66) @@ ("Z" :> 90) @@ ("b" :> 98)

CompanyNames ==
    {<<"A">>, <<"A", "b">>, <<"B">>}

\* a record of input_data.jsonl: the account with its name, and a number that
\* stands for the rest of the record
CustomerRecords ==
    [account : [name : CompanyNames], rest : 1..2]

\* the names a client may ask for: the loaded ones and one that is never loaded
RequestNames == CompanyNames \cup {<<"Z">>}

\* a < b for Python strings
RECURSIVE StrLess(_, _)
StrLess(a, b) ==
    IF b = <<>> THEN FALSE
    ELSE IF a = <<>> THEN TRUE
    ELSE IF Head(a) = Head(b) THEN StrLess(Tail(a), Tail(b))
    ELSE CodePoint[Head(a)] < CodePoint[Head(b)]

\* one step of a stable sort: x goes after every element that is not greater
RECURSIVE InsertByName(_, _)
InsertByName(sorted, x) ==
    IF sorted = <<>> THEN <<x>>
    ELSE IF StrLess(x.name, Head(sorted).name) THEN <<x>> \o sorted
    ELSE <<Head(sorted)>> \o InsertByName(Tail(sorted), x)

\* sorted(companies, key=lambda x: x["name"])
RECURSIVE SortedByName(_)
SortedByName(s) ==
    IF s = <<>> THEN <<>>
    ELSE InsertByName(SortedByName(SubSeq(s, 1, Len(s) - 1)), s[Len(s)])

\* get_customer_by_name answering from the first record only
LookupFirstOnly(company_name) ==
    IF CUSTOMER_DATA /= <<>> /\ CUSTOMER_DATA[1].account.name = company_name
    THEN Response(CUSTOMER_DATA[1])
    ELSE HTTPException(404, <<"Company '">> \o company_name \o <<"' not found">>)

\* app.py:201-204: the first record with the name, else 404
get_customer_by_name(company_name) ==
    LET matches == {i \in 1..Len(CUSTOMER_DATA) :
                        CUSTOMER_DATA[i].account.name = company_name}
    IN  IF matches /= {}
        THEN Response(CUSTOMER_DATA[CHOOSE i \in matches : \A j \in matches : i <= j])
        ELSE HTTPException(404, <<"Company '">> \o company_name \o <<"' not found">>)

\* app.py:194-195
get_companies ==
    Response(SortedByName([i \in 1..Len(CUSTOMER_DATA) |->
                               [name |-> CUSTOMER_DATA[i].account.name]]))

\* GET /api/companies
GetCompanies ==
    /\ companies = NoResponse
    /\ companies' = get_companies
    /\ UNCHANGED <<genVars, chunks, redVars, coreVars, apiVars, sseVars,
                   CUSTOMER_DATA, lookup, clientVars,
                   toolVars>>

\* GET /api/customer/{company_name}
GetCustomer ==
    /\ \E company_name \in RequestNames :
          lookup' = [name |-> company_name,
                     response |-> get_customer_by_name(company_name)]
    /\ UNCHANGED <<genVars, chunks, redVars, coreVars, apiVars, sseVars,
                   CUSTOMER_DATA, companies, clientVars,
                   toolVars>>

DataIdle ==
    /\ CUSTOMER_DATA = <<>>
    /\ companies = NoResponse
    /\ lookup = [name |-> <<>>, response |-> NoResponse]

-----------------------------------------------------------------------------
(* parse_streaming_response, simulate_traffic.py:78-103                     *)

\* the largest number of lines of a streamed response
MaxLines == 3

\* a line of the response as the client's iteration yields it: the event of
\* app.py:138-151 up to and including its first newline
FirstLine(event) == SubSeq(event, 1, Len(event) - 1)

TokenTexts ==
    {<<"H", "i">>, <<"a", "\"", "\n", "\\">>}

OtherTraceIdText == <<"t2">>

SentTraceIds == {PyNone, PyStr(TraceIdText), PyStr(OtherTraceIdText)}

TokenLine(content) == FirstLine(ChunkEvent(TokenChunk(content)))

DoneLine(tid) == FirstLine(ChunkEvent(DoneChunk(tid)))

\* a data line that is not JSON
MalformedLine ==
    DataPrefix \o <<"{", "o", "o", "p", "s", "\n">>

\* a data line that is JSON but no object
NumberLine ==
    DataPrefix \o <<"1", "\n">>

\* the line that ends an event
BlankLine == <<"\n">>

LinePool ==
    {TokenLine(c) : c \in TokenTexts}
    \cup {DoneLine(tid) : tid \in SentTraceIds}
    \cup {FirstLine(DoneEvent),
          FirstLine(ErrorEvent(ClientMissingMessage)),
          MalformedLine, NumberLine, BlankLine}

\* simulate_traffic.py:84: line.decode("utf-8").strip()
CurrentLine == Strip(lines[line_no + 1])

\* simulate_traffic.py:85
IsDataLine == StartsWith(CurrentLine, DataPrefix)

\* simulate_traffic.py:87: json.loads(line[6:])
LineData == json_loads(SubSeq(CurrentLine, Len(DataPrefix) + 1, Len(CurrentLine)))

\* data.get("type")
LineType == Get(LineData.val.m, KeyType, PyNone)

\* the trace id kept being the one of the last done event
TraceIdLastWins(current, received) == received

\* simulate_traffic.py:93-94
TraceIdAfterDone(current, received) ==
    IF current = PyNone /\ received /= PyNone THEN received ELSE current

InLines == lpc = "loop" /\ line_no < Len(lines)

\* simulate_traffic.py:85, 100-101: not a data line, or its data is not JSON
ParseSkip ==
    /\ InLines
    /\ IF IsDataLine THEN ~LineData.ok ELSE TRUE
    /\ line_no' = line_no + 1
    /\ UNCHANGED <<genVars, chunks, redVars, coreVars, apiVars, sseVars, dataVars,
                   lines, lpc, client_trace_id, client_content, client_out,
                   toolVars>>

\* simulate_traffic.py:88: data.get on a value that is no dict raises
\* AttributeError, which line 100 does not catch
ParseRaise ==
    /\ InLines
    /\ IsDataLine
    /\ LineData.ok
    /\ LineData.val.t /= "dict"
    /\ lpc' = "done"
    /\ client_out' = Raise("AttributeError")
    /\ UNCHANGED <<genVars, chunks, redVars, coreVars, apiVars, sseVars, dataVars,
                   lines, line_no, client_trace_id, client_content,
                   toolVars>>

IsEventLine ==
    IF ~IsDataLine THEN FALSE
    ELSE IF ~LineData.ok THEN FALSE
    ELSE LineData.val.t = "dict"

\* simulate_traffic.py:88-89
ParseToken ==
    /\ InLines
    /\ IsEventLine
    /\ LineType = PyStr(TypeToken)
    /\ client_content' = client_content \o Get(LineData.val.m, KeyContent, PyStr(<<>>)).sv
    /\ line_no' = line_no + 1
    /\ UNCHANGED <<genVars, chunks, redVars, coreVars, apiVars, sseVars, dataVars,
                   lines, lpc, client_trace_id, client_out,
                   toolVars>>

\* simulate_traffic.py:90-94
ParseDone ==
    /\ InLines
    /\ IsEventLine
    /\ LineType = PyStr(TypeDone)
    /\ client_trace_id' = TraceIdAfterDone(client_trace_id,
                                           Get(LineData.val.m, KeyTraceId, PyNone))
    /\ line_no' = line_no + 1
    /\ UNCHANGED <<genVars, chunks, redVars, coreVars, apiVars, sseVars, dataVars,
                   lines, lpc, client_content, client_out,
                   toolVars>>

\* simulate_traffic.py:95-99: an error event is printed; any other event is
\* passed over
ParseOther ==
    /\ InLines
    /\ IsEventLine
    /\ LineType \notin {PyStr(TypeToken), PyStr(TypeDone)}
    /\ line_no' = line_no + 1
    /\ UNCHANGED <<genVars, chunks, redVars, coreVars, apiVars, sseVars, dataVars,
                   lines, lpc, client_trace_id, client_content, client_out,
                   toolVars>>

\* simulate_traffic.py:103
ParseReturn ==
    /\ lpc = "loop"
    /\ line_no = Len(lines)
    /\ lpc' = "done"
    /\ client_out' = Return(<<client_trace_id, client_content>>)
    /\ UNCHANGED <<genVars, chunks, redVars, coreVars, apiVars, sseVars, dataVars,
                   lines, line_no, client_trace_id, client_content,
                   toolVars>>

parse_streaming_response ==
    \/ ParseSkip \/ ParseRaise \/ ParseToken \/ ParseDone \/ ParseOther
    \/ ParseReturn

ClientIdle ==
    /\ lines = <<>>
    /\ lpc = "idle"
    /\ line_no = 0
    /\ client_trace_id = PyNone
    /\ client_content = <<>>
    /\ client_out = Pending

ExtIdle == SseIdle /\ DataIdle /\ ClientIdle

-----------------------------------------------------------------------------
(* TrafficSimulator, simulate_traffic.py:105-328: run_simulation and the     *)
(* process_record coroutines it gathers.  Coroutines of one event loop give  *)
(* way to each other at an await and nowhere else, so each action runs from  *)
(* one await to the next.                                                    *)

\* most records run_simulation is given
MaxRecords == 4

\* simulate_traffic.py:311 sets batch_size = 10; the model runs the same loop
\* with smaller batches
batch_size == 2

SimRest == <<genVars, chunks, redVars, coreVars, apiVars, sseVars, dataVars,
             clientVars, evalVars, judgeVars>>

StatKeys ==
    {"total_requests", "successful_requests", "failed_requests",
     "with_instructions", "without_instructions",
     "thumbs_up", "thumbs_down", "no_feedback"}

\* self.stats[key] += 1
Count(s, key) == [s EXCEPT ![key] = @ + 1]

\* the trace the server opens for the request of record r
TraceOf(r) == PyStr(<<"tr", ToString(r)>>)

NoTask == [pc |-> "new", has_instructions |-> FALSE, trace_id |-> PyNone,
           feedback |-> <<>>]

\* how a POST /api/generate-email-stream/ may end, simulate_traffic.py:115-140
GenerateOutcomes == {"trace_id", "no_trace_id", "status", "exception"}

\* how a POST /api/feedback may end, simulate_traffic.py:161-188
FeedbackOutcomes == {"success", "refused", "status", "exception"}

\* the rating with every record's feedback a thumbs-down
RatingAlwaysDown(has_instructions) == "down"

\* simulate_traffic.py:231, 247
Rating(has_instructions) == IF has_instructions THEN "down" ELSE "up"

\* feedback that failed left uncounted
FeedbackCountedOnSuccess(s, rating, success) ==
    IF success
    THEN Count(s, IF rating = "up" THEN "thumbs_up" ELSE "thumbs_down")
    ELSE s

\* simulate_traffic.py:166-179 and 233-237, 249-253
FeedbackCounted(s, rating, success) ==
    IF success
    THEN Count(s, IF rating = "up" THEN "thumbs_up" ELSE "thumbs_down")
    ELSE Count(s, "no_feedback")

\* simulate_traffic.py:314: records[i : i + batch_size], as indexes from 1
Batch == {r \in 1..records : batch_at < r /\ r <= batch_at + batch_size}

\* asyncio.gather returning as soon as one of its tasks is over
GatheredAny == \E r \in Batch : task[r].pc = "done"

\* simulate_traffic.py:321: asyncio.gather returns once every task is over
Gathered == \A r \in Batch : task[r].pc = "done"

\* simulate_traffic.py:268-300: the health check; on 200 the records are
\* loaded, otherwise run_simulation returns
RunStart ==
    /\ spc = "start"
    /\ \E healthy \in BOOLEAN : spc' = IF healthy THEN "loop" ELSE "finished"
    /\ UNCHANGED <<records, stats, batch_at, task>>
    /\ UNCHANGED SimRest

\* simulate_traffic.py:313-321: the coroutines of the next batch are created
\* and handed to asyncio.gather
BatchStart ==
    /\ spc = "loop"
    /\ batch_at < records
    /\ task' = [r \in 1..MaxRecords |->
                   IF r \in Batch THEN [task[r] EXCEPT !.pc = "scheduled"]
                   ELSE task[r]]
    /\ spc' = "gather"
    /\ UNCHANGED <<records, stats, batch_at>>
    /\ UNCHANGED SimRest

\* simulate_traffic.py:321-328: the batch is over; a pause when records remain
GatherDone ==
    /\ spc = "gather"
    /\ Gathered
    /\ IF batch_at + batch_size < records
       THEN spc' = "pause" /\ UNCHANGED batch_at
       ELSE spc' = "loop" /\ batch_at' = batch_at + batch_size
    /\ UNCHANGED <<records, stats, task>>
    /\ UNCHANGED SimRest

\* simulate_traffic.py:328: asyncio.sleep(delay_between_batches) is over
PauseOver ==
    /\ spc = "pause"
    /\ spc' = "loop"
    /\ batch_at' = batch_at + batch_size
    /\ UNCHANGED <<records, stats, task>>
    /\ UNCHANGED SimRest

\* simulate_traffic.py:313, 330-368: no batch is left; the report divides by
\* total_requests
LoopEnd ==
    /\ spc = "loop"
    /\ batch_at >= records
    /\ spc' = IF stats["total_requests"] = 0 THEN "raised" ELSE "finished"
    /\ UNCHANGED <<records, stats, batch_at, task>>
    /\ UNCHANGED SimRest

\* simulate_traffic.py:194-213: process_record up to its await of
\* generate_email
ProcessStart(r) ==
    /\ task[r].pc = "scheduled"
    /\ \E has_instructions \in BOOLEAN :
          /\ stats' = Count(Count(stats, "total_requests"),
                            IF has_instructions THEN "with_instructions"
                            ELSE "without_instructions")
          /\ task' = [task EXCEPT ![r].pc = "generate",
                                  ![r].has_instructions = has_instructions]
    /\ UNCHANGED <<records, spc, batch_at>>
    /\ UNCHANGED SimRest

\* simulate_traffic.py:115-140 and 213-255: the response to the generation
\* request is counted; without a trace_id process_record returns, otherwise it
\* draws whether to give feedback
GenerateEmailDone(r) ==
    /\ task[r].pc = "generate"
    /\ \E outcome \in GenerateOutcomes, give \in BOOLEAN :
          IF outcome /= "trace_id"
          THEN /\ ~give
               /\ stats' = Count(stats, "failed_requests")
               /\ task' = [task EXCEPT ![r].pc = "done"]
          ELSE /\ task' = [task EXCEPT ![r].trace_id = TraceOf(r),
                                       ![r].pc = IF give THEN "sleep" ELSE "rest"]
               /\ stats' = IF give THEN Count(stats, "successful_requests")
                           ELSE Count(Count(stats, "successful_requests"),
                                      "no_feedback")
    /\ UNCHANGED <<records, spc, batch_at>>
    /\ UNCHANGED SimRest

\* simulate_traffic.py:229-232, 245-248 and 150-165: asyncio.sleep(1) is
\* over and submit_feedback posts the rating for the trace
SubmitFeedback(r) ==
    /\ task[r].pc = "sleep"
    /\ task' = [task EXCEPT
                   ![r].pc = "submit",
                   ![r].feedback =
                       Append(@, [trace_id |-> task[r].trace_id,
                                  rating |-> Rating(task[r].has_instructions)])]
    /\ UNCHANGED <<records, stats, spc, batch_at>>
    /\ UNCHANGED SimRest

\* simulate_traffic.py:166-188 and 233-237, 249-253: the answer to the
\* feedback request is counted
FeedbackDone(r) ==
    /\ task[r].pc = "submit"
    /\ \E outcome \in FeedbackOutcomes :
          stats' = FeedbackCounted(stats, Rating(task[r].has_instructions),
                                   outcome = "success")
    /\ task' = [task EXCEPT ![r].pc = "rest"]
    /\ UNCHANGED <<records, spc, batch_at>>
    /\ UNCHANGED SimRest

\* simulate_traffic.py:259: asyncio.sleep(0.5) is over, process_record returns
ProcessEnd(r) ==
    /\ task[r].pc = "rest"
    /\ task' = [task EXCEPT ![r].pc = "done"]
    /\ UNCHANGED <<records, stats, spc, batch_at>>
    /\ UNCHANGED SimRest

SimIdle ==
    /\ records = 0
    /\ stats = [k \in StatKeys |-> 0]
    /\ spc = "idle"
    /\ batch_at = 0
    /\ task = [r \in 1..MaxRecords |-> NoTask]


-----------------------------------------------------------------------------
(* predict_fn, evaluation.py:123-147, around core_generate_email_logic,      *)
(* llm_utils.py:107-124.  The evaluation harness may run predictions on      *)
(* several threads; a thread may be preempted between any two statements.    *)

\* most calls of predict_fn in one evaluation
MaxCalls == 2

Calls == 1..MaxCalls

\* llm_utils.PROMPT and llm_utils.LLM_MODEL as the module defines them
ModulePrompt == "PROMPT"

ModuleModel == "LLM_MODEL"

\* the prompt_template and model arguments
PromptTemplates == {"prompt_v1", "prompt_v2"}

Models == {"model_a", "model_b"}

Unset == "unset"

NoPredict(prompt_template, model) ==
    [pc |-> "idle", prompt_template |-> prompt_template, model |-> model,
     entry_prompt |-> Unset, entry_model |-> Unset,
     original_prompt |-> Unset, original_model |-> Unset,
     request_prompt |-> Unset, request_model |-> Unset, outcome |-> "pending"]

EvalRest == <<genVars, chunks, redVars, coreVars, apiVars, sseVars, dataVars,
              clientVars, simVars, judgeVars>>

\* no call of predict_fn is under way
Alone == \A c \in Calls : call[c].pc \in {"idle", "done"}

\* predict_fn is entered; entry_prompt and entry_model note the module's
\* values at that moment
PredictEnter(c) ==
    /\ call[c].pc = "idle"
    /\ call' = [call EXCEPT ![c].pc = "save_prompt",
                            ![c].entry_prompt = PROMPT,
                            ![c].entry_model = LLM_MODEL]
    /\ UNCHANGED <<PROMPT, LLM_MODEL>>
    /\ UNCHANGED EvalRest

\* evaluation.py:136
SavePrompt(c) ==
    /\ call[c].pc = "save_prompt"
    /\ call' = [call EXCEPT ![c].pc = "save_model", ![c].original_prompt = PROMPT]
    /\ UNCHANGED <<PROMPT, LLM_MODEL>>
    /\ UNCHANGED EvalRest

\* evaluation.py:137
SaveModel(c) ==
    /\ call[c].pc = "save_model"
    /\ call' = [call EXCEPT ![c].pc = "set_prompt", ![c].original_model = LLM_MODEL]
    /\ UNCHANGED <<PROMPT, LLM_MODEL>>
    /\ UNCHANGED EvalRest

\* evaluation.py:140
SetPrompt(c) ==
    /\ call[c].pc = "set_prompt"
    /\ PROMPT' = call[c].prompt_template
    /\ call' = [call EXCEPT ![c].pc = "set_model"]
    /\ UNCHANGED LLM_MODEL
    /\ UNCHANGED EvalRest

\* evaluation.py:141
SetModel(c) ==
    /\ call[c].pc = "set_model"
    /\ LLM_MODEL' = call[c].model
    /\ call' = [call EXCEPT ![c].pc = "core"]
    /\ UNCHANGED PROMPT
    /\ UNCHANGED EvalRest

\* llm_utils.py:109-110: _validate_openai_client() and set_app_version()
\* return or raise RuntimeError; a raise runs predict_fn's finally clause
PredictSetup(c) ==
    /\ call[c].pc = "core"
    /\ \E raised \in BOOLEAN :
          call' = [call EXCEPT
                      ![c].pc = IF raised THEN "restore_prompt" ELSE "read_model",
                      ![c].outcome = IF raised THEN "raise" ELSE @]
    /\ UNCHANGED <<PROMPT, LLM_MODEL>>
    /\ UNCHANGED EvalRest

\* llm_utils.py:113: model=LLM_MODEL
ReadModel(c) ==
    /\ call[c].pc = "read_model"
    /\ call' = [call EXCEPT ![c].pc = "read_prompt", ![c].request_model = LLM_MODEL]
    /\ UNCHANGED <<PROMPT, LLM_MODEL>>
    /\ UNCHANGED EvalRest

\* llm_utils.py:114 and 82-87: _create_messages reads PROMPT, the request is sent
ReadPrompt(c) ==
    /\ call[c].pc = "read_prompt"
    /\ call' = [call EXCEPT ![c].pc = "request", ![c].request_prompt = PROMPT]
    /\ UNCHANGED <<PROMPT, LLM_MODEL>>
    /\ UNCHANGED EvalRest

\* llm_utils.py:112-124: the completion arrives; core_generate_email_logic
\* returns the email or raises on a payload that does not parse
PredictRespond(c) ==
    /\ call[c].pc = "request"
    /\ \E outcome \in {"return", "raise"} :
          call' = [call EXCEPT ![c].pc = "restore_prompt", ![c].outcome = outcome]
    /\ UNCHANGED <<PROMPT, LLM_MODEL>>
    /\ UNCHANGED EvalRest

\* PROMPT put back after a return only, as if there were no finally clause
RestorePromptOnReturn(c) ==
    /\ call[c].pc = "restore_prompt"
    /\ PROMPT' = IF call[c].outcome = "return" THEN call[c].original_prompt ELSE PROMPT
    /\ call' = [call EXCEPT ![c].pc = "restore_model"]
    /\ UNCHANGED LLM_MODEL
    /\ UNCHANGED EvalRest

\* evaluation.py:144-146
RestorePrompt(c) ==
    /\ call[c].pc = "restore_prompt"
    /\ PROMPT' = call[c].original_prompt
    /\ call' = [call EXCEPT ![c].pc = "restore_model"]
    /\ UNCHANGED LLM_MODEL
    /\ UNCHANGED EvalRest

\* evaluation.py:147: predict_fn returns or raises as the call did
RestoreModel(c) ==
    /\ call[c].pc = "restore_model"
    /\ LLM_MODEL' = call[c].original_model
    /\ call' = [call EXCEPT ![c].pc = "done"]
    /\ UNCHANGED PROMPT
    /\ UNCHANGED EvalRest

\* predict_fn from its first statement to its last
PredictStep(c) ==
    \/ SavePrompt(c)
    \/ SaveModel(c)
    \/ SetPrompt(c)
    \/ SetModel(c)
    \/ PredictSetup(c)
    \/ ReadModel(c)
    \/ ReadPrompt(c)
    \/ PredictRespond(c)
    \/ RestorePrompt(c)
    \/ RestoreModel(c)

EvalIdle ==
    /\ PROMPT = ModulePrompt
    /\ LLM_MODEL = ModuleModel
    /\ call = [c \in Calls |-> NoPredict(Unset, Unset)]


-----------------------------------------------------------------------------
(* The judge evaluator of sample_code/prompt_judge_sdk.py: _find_placeholders *)
(* and _render_template, lines 33-51, _build_prompt and _evaluate_sync,       *)
(* lines 114-176                                                              *)

\* most segments a prompt template is put together from
MaxSegments == 3

\* \w, on the characters the templates use
WordChars == {"a", "b", "x", "v"}

OpenBraces == <<"{", "{">>

CloseBraces == <<"}", "}">>

\* f"{{{{{ph}}}}}", prompt_judge_sdk.py:50
Braced(ph) == OpenBraces \o ph \o CloseBraces

\* the length of the run of word characters of t that begins at position i
RECURSIVE WordRun(_, _)
WordRun(t, i) ==
    IF i <= Len(t) /\ t[i] \in WordChars THEN 1 + WordRun(t, i + 1) ELSE 0

\* prompt_judge_sdk.py:33, 36-37: _PLACEHOLDER_RE.findall from position i on.
\* A match is two opening braces, one or more word characters, two closing
\* braces; the search goes on behind a match, and one character further on
\* where there is none.
RECURSIVE FindAll(_, _)
FindAll(t, i) ==
    IF i + 4 > Len(t) THEN {}
    ELSE LET k == WordRun(t, i + 2)
             matched == /\ SubSeq(t, i, i + 1) = OpenBraces
                        /\ k >= 1
                        /\ i + k + 3 <= Len(t)
                        /\ SubSeq(t, i + k + 2, i + k + 3) = CloseBraces
         IN  IF matched
             THEN {SubSeq(t, i + 2, i + k + 1)} \cup FindAll(t, i + k + 4)
             ELSE FindAll(t, i + 1)

_find_placeholders(template) == FindAll(template, 1)

\* str.replace: the occurrences of old in s from position i on, left to
\* right and without overlap, give way to new
RECURSIVE ReplaceFrom(_, _, _, _)
ReplaceFrom(s, i, old, new) ==
    IF i > Len(s) THEN <<>>
    ELSE IF i + Len(old) - 1 <= Len(s) /\ SubSeq(s, i, i + Len(old) - 1) = old
    THEN new \o ReplaceFrom(s, i + Len(old), old, new)
    ELSE <<s[i]>> \o ReplaceFrom(s, i + 1, old, new)

\* str(kwargs[ph]): the evaluator is called with this value under every key
KwargValue == <<"v">>

\* prompt_judge_sdk.py:48-51: one replace per placeholder
RECURSIVE RenderAll(_, _)
RenderAll(rendered, phs) ==
    IF phs = {} THEN rendered
    ELSE LET ph == CHOOSE p \in phs : TRUE
         IN  RenderAll(ReplaceFrom(rendered, 1, Braced(ph), KwargValue), phs \ {ph})

JudgeReturn(v) == [out |-> "return", val |-> v, exc |-> "none", missing |-> {}]

JudgeRaise(exc, missing) == [out |-> "raise", val |-> <<>>, exc |-> exc,
                             missing |-> missing]

JudgePending == [out |-> "pending", val |-> <<>>, exc |-> "none", missing |-> {}]

\* _render_template filling in what it can and leaving the rest as it stands
RenderLenient(template, kwargs) ==
    JudgeReturn(RenderAll(template, _find_placeholders(template) \cap kwargs))

\* prompt_judge_sdk.py:40-51; kwargs is the set of keyword names
_render_template(template, kwargs) ==
    LET missing == _find_placeholders(template) \ kwargs
    IN  IF missing /= {}
        THEN JudgeRaise("ValueError", missing)
        ELSE JudgeReturn(RenderAll(template, _find_placeholders(template)))

\* prompt_judge_sdk.py:116-129: the instruction _build_prompt adds
AnswerInstruction(has_choices, use_cot) ==
    IF ~has_choices THEN <<"think, then FINAL ANSWER: <choice>">>
    ELSE IF use_cot THEN <<"think, then FINAL ANSWER: <choices>">>
    ELSE <<"Answer with ONLY one of: choices">>

JudgeRest == <<genVars, chunks, redVars, coreVars, apiVars, sseVars, dataVars,
               clientVars, simVars, evalVars>>

\* prompt_judge_sdk.py:135 and 114-129: _build_prompt renders the template and
\* adds the answer instruction; a ValueError of _render_template leaves
\* _evaluate_sync
JudgeBuildPrompt ==
    /\ judge.pc = "call"
    /\ \E rendered \in {_render_template(judge.prompt_template, judge.kwargs)} :
          IF rendered.out = "raise"
          THEN judge' = [judge EXCEPT !.pc = "raised", !.out = rendered]
          ELSE judge' = [judge EXCEPT
                            !.pc = "request",
                            !.prompt = rendered.val
                                \o AnswerInstruction(judge.has_choices, judge.use_cot)]
    /\ UNCHANGED JudgeRest

\* prompt_judge_sdk.py:137-142: the request to the model endpoint
JudgeRequest ==
    /\ judge.pc = "request"
    /\ judge' = [judge EXCEPT !.pc = "reply", !.requests = Append(@, judge.prompt)]
    /\ UNCHANGED JudgeRest

\* prompt_judge_sdk.py:143-177: the reply holds a choice and an Assessment is
\* returned, or it holds none and ValueError is raised
JudgeReply ==
    /\ judge.pc = "reply"
    /\ \E found \in BOOLEAN :
          judge' = [judge EXCEPT
                       !.pc = IF found THEN "returned" ELSE "raised",
                       !.out = IF found THEN JudgeReturn(<<"Assessment">>)
                               ELSE JudgeRaise("ValueError", {})]
    /\ UNCHANGED JudgeRest

NoJudge(template, kwargs, has_choices, use_cot) ==
    [pc |-> "call", prompt_template |-> template, kwargs |-> kwargs,
     has_choices |-> has_choices, use_cot |-> use_cot,
     prompt |-> <<>>, requests |-> <<>>, out |-> JudgePending]

JudgeIdle == judge = [NoJudge(<<>>, {}, FALSE, FALSE) EXCEPT !.pc = "idle"]

ToolsIdle == SimIdle /\ EvalIdle /\ JudgeIdle

-----------------------------------------------------------------------------
(* Specifications *)

NoPayload == [lead |-> <<>>, text |-> <<>>, trail |-> <<>>]

ReducerIdle(pc) ==
    /\ rpc = pc
    /\ idx = 0
    /\ full_content = <<>>
    /\ trace_id = PyNone
    /\ error = PyNone
    /\ result = Pending

GeneratorAt(pc) ==
    /\ gpc = pc
    /\ pulled = 0
    /\ arrived = <<>>
    /\ pending = <<>>
    /\ full_response = <<>>
    /\ user_tag = "unset"

\* one streaming request, from the call of the generator to the reducer's result
Init ==
    /\ openai_client \in BOOLEAN
    /\ app_version_ok \in BOOLEAN
    /\ customer_data \in CustomerData
    /\ GeneratorAt("start")
    /\ chunks = <<>>
    /\ ReducerIdle("idle")
    /\ payload = NoPayload
    /\ core = [f \in Forms |-> NoCall("idle")]
    /\ ApiIdle
    /\ ToolsIdle
    /\ ExtIdle

\* the generator yields token, done and error chunks only, so the reducer's
\* branch for other chunks is not part of a streaming request
Next ==
    \/ Generate
    \/ ReducerStart
    \/ ReduceToken \/ ReduceDone \/ ReduceError \/ ReduceReturn

Spec == Init /\ [][Next]_vars

\* stream_output_reducer called on any list of chunks
ChunkPool ==
    {TokenChunk(EmailText), TokenChunk(NoBodyText), TokenChunk(NumberText),
     TokenChunk(FenceJsonOpen), TokenChunk(FenceJsonClose),
     DoneChunk(PyNone), DoneChunk(PyStr(TraceIdText)),
     ErrorChunk(PyStr(<<"rate limited">>)), ErrorChunk(PyStr(<<>>)),
     [type |-> "ping"]}

InitReducer ==
    /\ openai_client = TRUE
    /\ app_version_ok = TRUE
    /\ customer_data = [account_name |-> TRUE, user_input |-> PyNone]
    /\ GeneratorAt("caller")
    /\ chunks \in SeqsUpTo(ChunkPool, MaxChunks)
    /\ ReducerIdle("loop")
    /\ payload = NoPayload
    /\ core = [f \in Forms |-> NoCall("idle")]
    /\ ApiIdle
    /\ ToolsIdle
    /\ ExtIdle

NextReducer == Reduce

SpecReducer == InitReducer /\ [][NextReducer]_vars

\* core_generate_email_logic called on one payload in each of its shapes
InitCore ==
    /\ openai_client \in BOOLEAN
    /\ app_version_ok \in BOOLEAN
    /\ customer_data = [account_name |-> TRUE, user_input |-> PyNone]
    /\ GeneratorAt("caller")
    /\ chunks = <<>>
    /\ ReducerIdle("idle")
    /\ payload \in Payloads
    /\ core = [f \in Forms |-> NoCall("call")]
    /\ ApiIdle
    /\ ToolsIdle
    /\ ExtIdle

NextCore == Core

SpecCore == InitCore /\ [][NextCore]_vars

\* one POST /api/generate-email/ on one completion of one shape, served by
\* app.py and by backend/main.py, and the same completion given to the
\* backend/llm_utils.py and archive/notebook.py copies
InitApi ==
    /\ openai_client \in BOOLEAN
    /\ app_version_ok \in BOOLEAN
    /\ customer_data = [account_name |-> TRUE, user_input |-> PyNone]
    /\ GeneratorAt("caller")
    /\ chunks = <<>>
    /\ ReducerIdle("idle")
    /\ payload \in Payloads
    /\ \E form \in Forms :
          core = [f \in Forms |-> IF f = form THEN NoCall("call") ELSE NoCall("idle")]
    /\ variant = [v \in Variants |-> NoCall("call")]
    /\ api = [f \in Forms |-> NoResponse]
    /\ main_api = NoResponse
    /\ ExtIdle
    /\ ToolsIdle

NextApi ==
    \/ \E form \in Forms : ApiGenerateEmail(form)
    \/ MainApiGenerateEmail
    \/ BackendGenerate
    \/ NotebookGenerate

SpecApi == InitApi /\ [][NextApi]_vars

\* one POST /api/generate-email-stream/: generate() of app.py:131-151 drives
\* the generator and yields the server-sent events
InitSSE ==
    /\ openai_client \in BOOLEAN
    /\ app_version_ok \in BOOLEAN
    /\ customer_data \in CustomerData
    /\ GeneratorAt("start")
    /\ chunks = <<>>
    /\ ReducerIdle("idle")
    /\ payload = NoPayload
    /\ core = [f \in Forms |-> NoCall("idle")]
    /\ ApiIdle
    /\ ToolsIdle
    /\ wpc = "await"
    /\ delivered = 0
    /\ events = <<>>
    /\ cancelled = FALSE
    /\ DataIdle
    /\ ClientIdle

NextSSE == Generate \/ Wrap

SpecSSE == InitSSE /\ [][NextSSE]_vars

\* the company endpoints over any loaded data whose records name their account
InitCompanies ==
    /\ openai_client = TRUE
    /\ app_version_ok = TRUE
    /\ customer_data = [account_name |-> TRUE, user_input |-> PyNone]
    /\ GeneratorAt("caller")
    /\ chunks = <<>>
    /\ ReducerIdle("idle")
    /\ payload = NoPayload
    /\ core = [f \in Forms |-> NoCall("idle")]
    /\ ApiIdle
    /\ ToolsIdle
    /\ SseIdle
    /\ CUSTOMER_DATA \in SeqsUpTo(CustomerRecords, MaxCustomers)
    /\ companies = NoResponse
    /\ lookup = [name |-> <<>>, response |-> NoResponse]
    /\ ClientIdle

NextCompanies == GetCompanies \/ GetCustomer

SpecCompanies == InitCompanies /\ [][NextCompanies]_vars

\* parse_streaming_response reading any response of up to MaxLines lines
InitClient ==
    /\ openai_client = TRUE
    /\ app_version_ok = TRUE
    /\ customer_data = [account_name |-> TRUE, user_input |-> PyNone]
    /\ GeneratorAt("caller")
    /\ chunks = <<>>
    /\ ReducerIdle("idle")
    /\ payload = NoPayload
    /\ core = [f \in Forms |-> NoCall("idle")]
    /\ ApiIdle
    /\ ToolsIdle
    /\ SseIdle
    /\ DataIdle
    /\ lines \in SeqsUpTo(LinePool, MaxLines)
    /\ lpc = "loop"
    /\ line_no = 0
    /\ client_trace_id = PyNone
    /\ client_content = <<>>
    /\ client_out = Pending

NextClient == parse_streaming_response

SpecClient == InitClient /\ [][NextClient]_vars

\* run_simulation on a file of up to MaxRecords records
InitSim ==
    /\ openai_client = TRUE
    /\ app_version_ok = TRUE
    /\ customer_data = [account_name |-> TRUE, user_input |-> PyNone]
    /\ GeneratorAt("caller")
    /\ chunks = <<>>
    /\ ReducerIdle("idle")
    /\ payload = NoPayload
    /\ core = [f \in Forms |-> NoCall("idle")]
    /\ ApiIdle
    /\ ExtIdle
    /\ EvalIdle
    /\ JudgeIdle
    /\ records \in 0..MaxRecords
    /\ stats = [k \in StatKeys |-> 0]
    /\ spc = "start"
    /\ batch_at = 0
    /\ task = [r \in 1..MaxRecords |-> NoTask]

NextSim ==
    \/ RunStart
    \/ BatchStart
    \/ GatherDone
    \/ PauseOver
    \/ LoopEnd
    \/ \E r \in 1..MaxRecords : ProcessStart(r)
    \/ \E r \in 1..MaxRecords : GenerateEmailDone(r)
    \/ \E r \in 1..MaxRecords : SubmitFeedback(r)
    \/ \E r \in 1..MaxRecords : FeedbackDone(r)
    \/ \E r \in 1..MaxRecords : ProcessEnd(r)

SpecSim == InitSim /\ [][NextSim]_vars

InitEval ==
    /\ openai_client = TRUE
    /\ app_version_ok = TRUE
    /\ customer_data = [account_name |-> TRUE, user_input |-> PyNone]
    /\ GeneratorAt("caller")
    /\ chunks = <<>>
    /\ ReducerIdle("idle")
    /\ payload = NoPayload
    /\ core = [f \in Forms |-> NoCall("idle")]
    /\ ApiIdle
    /\ ExtIdle
    /\ SimIdle
    /\ JudgeIdle
    /\ PROMPT = ModulePrompt
    /\ LLM_MODEL = ModuleModel
    /\ call \in [Calls -> {NoPredict(p, m) : p \in PromptTemplates, m \in Models}]

\* predictions run one after another
NextEvalSeq ==
    \/ \E c \in Calls : Alone /\ PredictEnter(c)
    \/ \E c \in Calls : PredictStep(c)

SpecEvalSeq == InitEval /\ [][NextEvalSeq]_vars

\* predictions run on the harness's threads
NextEval ==
    \/ \E c \in Calls : PredictEnter(c)
    \/ \E c \in Calls : PredictStep(c)

SpecEval == InitEval /\ [][NextEval]_vars

\* the names a template's placeholders and a call's keywords are taken from
Names == {<<"a">>, <<"b">>, <<"a", "b">>}

\* pieces of prompt templates: placeholders, a name in braces with blanks
\* around it, text, single braces
SegmentPool ==
    {Braced(<<"a">>), Braced(<<"b">>), Braced(<<"a", "b">>),
     OpenBraces \o <<" ", "a", " ">> \o CloseBraces,
     <<"x">>, <<"{">>, <<"}">>}

Templates == {Flatten(segs) : segs \in SeqsUpTo(SegmentPool, MaxSegments)}

\* an evaluator made by _make_evaluator, called once with keyword arguments
InitJudge ==
    /\ openai_client = TRUE
    /\ app_version_ok = TRUE
    /\ customer_data = [account_name |-> TRUE, user_input |-> PyNone]
    /\ GeneratorAt("caller")
    /\ chunks = <<>>
    /\ ReducerIdle("idle")
    /\ payload = NoPayload
    /\ core = [f \in Forms |-> NoCall("idle")]
    /\ ApiIdle
    /\ ExtIdle
    /\ SimIdle
    /\ EvalIdle
    /\ \E template \in Templates, kwargs \in SUBSET Names,
          has_choices \in BOOLEAN, use_cot \in BOOLEAN :
          judge = NoJudge(template, kwargs, has_choices, use_cot)

NextJudge == JudgeBuildPrompt \/ JudgeRequest \/ JudgeReply

SpecJudge == InitJudge /\ [][NextJudge]_vars

-----------------------------------------------------------------------------
(* What a chunk list says, read off the list itself *)

IsToken(c) == c.type = "token"

IsTerminal(c) == c.type \in {"done", "error"}

\* the contents of the token chunks of cs, in order
TokenContents(cs) ==
    LET tokens == SelectSeq(cs, IsToken)
    IN  [i \in 1..Len(tokens) |-> tokens[i].content]

\* the text the token chunks of cs spell
Buffer(cs) == Flatten(TokenContents(cs))

\* token chunks only, then one done chunk
TokensThenDone(cs) ==
    /\ Len(cs) >= 1
    /\ cs[Len(cs)].type = "done"
    /\ \A i \in 1..(Len(cs) - 1) : IsToken(cs[i])

ReducerOver == rpc \in {"returned", "raised"}

\* the result is a dict with these keys and no others
ReturnedDictWith(keys) ==
    /\ result.out = "return"
    /\ result.val.t = "dict"
    /\ DOMAIN result.val.m = keys

\* the payload the reducer parses for the chunk list
ParsedBuffer == json_loads(_clean_json_response(Buffer(chunks)))

IsEmailObject(parsed) ==
    /\ parsed.ok
    /\ parsed.val.t = "dict"
    /\ {KeySubjectLine, KeyBody} \subseteq DOMAIN parsed.val.m

-----------------------------------------------------------------------------
(* Claims *)

\* C1: the token chunks handed on are the upstream tokens in arrival order,
\* none dropped, repeated or moved (at most the one just pulled is still to
\* be yielded), and for tokens followed by one done chunk the reducer's
\* accumulated buffer is the concatenation of the token contents in that order.
C1_TokensInOrder ==
    /\ LET sent == TokenContents(chunks)
       IN  /\ Len(sent) <= Len(arrived)
           /\ sent = SubSeq(arrived, 1, Len(sent))
           /\ Len(arrived) - Len(sent) = (IF gpc = "yield" THEN 1 ELSE 0)
    /\ (ReducerOver /\ TokensThenDone(chunks)) => full_content = Flatten(arrived)

C1_Witness ==
    /\ rpc = "returned"
    /\ TokensThenDone(chunks)
    /\ Len(arrived) = 3
    /\ arrived[1] /= arrived[3]
    /\ full_content = arrived[1] \o arrived[2] \o arrived[3]

\* C2: tokens followed by a done chunk whose cleaned buffer parses as an object
\* with subject_line and body reduce to a document with those two fields and
\* the done chunk's trace_id.
C2_ParsedDocument ==
    (ReducerOver /\ TokensThenDone(chunks) /\ IsEmailObject(ParsedBuffer)) =>
        /\ result.out = "return"
        /\ result.val.t = "dict"
        /\ {KeySubjectLine, KeyBody, KeyTraceId} \subseteq DOMAIN result.val.m
        /\ KeyError \notin DOMAIN result.val.m
        /\ result.val.m[KeySubjectLine] = ParsedBuffer.val.m[KeySubjectLine]
        /\ result.val.m[KeyBody] = ParsedBuffer.val.m[KeyBody]
        /\ result.val.m[KeyTraceId] = chunks[Len(chunks)].trace_id

C2_Witness ==
    /\ rpc = "returned"
    /\ chunks = <<TokenChunk(FenceJsonOpen), TokenChunk(EmailText),
                  TokenChunk(FenceJsonClose), DoneChunk(PyStr(TraceIdText))>>
    /\ result.val.m[KeySubjectLine] = PyStr(<<"S">>)
    /\ result.val.m[KeyBody] = PyStr(<<"B">>)
    /\ result.val.m[KeyTraceId] = PyStr(TraceIdText)

\* the first error chunk of the list
FirstError(cs) ==
    CHOOSE i \in 1..Len(cs) :
        /\ cs[i].type = "error"
        /\ \A j \in 1..(i - 1) : cs[j].type /= "error"

\* C3: when an error chunk arrives the result is a failure whose detail is the
\* error chunk's message and whose raw_content is the buffer of the token
\* chunks before the error.
C3_UpstreamFailure ==
    (ReducerOver /\ \E i \in 1..Len(chunks) : chunks[i].type = "error") =>
        /\ ReturnedDictWith({KeyError, KeyRawContent})
        /\ result.val.m[KeyError] = chunks[FirstError(chunks)].error
        /\ result.val.m[KeyRawContent] =
               PyStr(Buffer(SubSeq(chunks, 1, FirstError(chunks) - 1)))

\* a terminal chunk has been processed
Terminated == \E i \in 1..idx : IsTerminal(chunks[i])

\* C4: once a terminal chunk has been processed no later chunk changes the
\* aggregated result.
C4_TerminatedIsFinal ==
    [][(Terminated /\ rpc = "loop" /\ rpc' = "loop") =>
          ReducerOutcome(full_content', trace_id', error')
              = ReducerOutcome(full_content, trace_id, error)]_vars

\* "stream ended without terminal marker"
NoTerminalMessage == <<"stream ended without terminal marker">>

\* C5: a chunk list without done or error chunk reduces to an upstream failure
\* saying the stream ended without terminal marker, with the buffer as
\* raw_content, whatever the buffer spells.
C5_NoTerminalIsFailure ==
    (ReducerOver /\ \A i \in 1..Len(chunks) : ~IsTerminal(chunks[i])) =>
        /\ ReturnedDictWith({KeyError, KeyRawContent})
        /\ result.val.m[KeyError] = PyStr(NoTerminalMessage)
        /\ result.val.m[KeyRawContent] = PyStr(Buffer(chunks))

\* C6: tokens followed by a done chunk whose buffer parses to an object that
\* lacks subject_line or body reduce to a parse failure, never to a document.
C6_MissingFieldIsParseError ==
    (/\ ReducerOver
     /\ TokensThenDone(chunks)
     /\ ParsedBuffer.ok
     /\ ParsedBuffer.val.t = "dict"
     /\ ~IsEmailObject(ParsedBuffer)) =>
        /\ result.out = "return"
        /\ {KeyError, KeyRawContent} \subseteq DOMAIN result.val.m
        /\ result.val.m[KeyRawContent] = PyStr(Buffer(chunks))

\* C7: tokens (possibly none) followed by a done chunk whose cleaned payload
\* is not valid JSON reduce to a parse failure whose raw_content is the whole
\* accumulated buffer and whose detail carries the parser's message.
C7_InvalidJsonIsParseError ==
    (ReducerOver /\ TokensThenDone(chunks) /\ ~ParsedBuffer.ok) =>
        /\ result.out = "return"
        /\ {KeyError, KeyRawContent} \subseteq DOMAIN result.val.m
        /\ KeySubjectLine \notin DOMAIN result.val.m
        /\ result.val.m[KeyRawContent] = PyStr(Buffer(chunks))
        /\ \E i \in 1..Len(result.val.m[KeyError].sv) :
               result.val.m[KeyError].sv[i] = ParsedBuffer.msg

C7_Witness ==
    /\ rpc = "returned"
    /\ chunks = <<DoneChunk(PyStr(TraceIdText))>>
    /\ result.val.m[KeyRawContent] = PyStr(<<>>)
    /\ result.val.m[KeyError] = PyStr(ParseErrorPrefix \o <<"Expecting value", "0">>)

\* C8: the aggregator never raises: every chunk list ends in a returned outcome.
C8_NeverRaises ==
    /\ rpc /= "raised"
    /\ gpc /= "raised"

AllCalled == \A f \in Forms : core[f].pc = "done"

SetupOk == openai_client /\ app_version_ok

\* C9: for a JSON object payload, cleaning and parsing give the same document
\* whether the payload comes bare, in a generic fence with newlines or in a
\* json fence with newlines.
C9_FenceRoundTrip ==
    (AllCalled /\ SetupOk /\ payload.text \in ObjectTexts) =>
        /\ core["raw"].email_json.ok
        /\ core["raw"].email_json.val.t = "dict"
        /\ core["json"].email_json.ok
        /\ core["generic"].email_json.ok
        /\ core["json"].email_json.val = core["raw"].email_json.val
        /\ core["generic"].email_json.val = core["raw"].email_json.val

C9_Witness ==
    /\ AllCalled
    /\ SetupOk
    /\ payload.text = EmailText
    /\ payload.lead /= <<>>
    /\ core["json"].out.out = "return"
    /\ core["json"].email_json.val.m[KeyBody] = PyStr(<<"B">>)

\* a JSON object with nothing around it
TrimmedObject == payload.text \in ObjectTexts /\ payload.lead = <<>> /\ payload.trail = <<>>

\* C10: on a trimmed, unfenced JSON object fence-stripping changes nothing, and
\* so stripping its result again changes nothing either.
C10_CleanIsNoOp ==
    (core["raw"].pc = "done" /\ SetupOk /\ TrimmedObject) =>
        /\ core["raw"].clean_string = PayloadOf(payload)
        /\ _clean_json_response(core["raw"].clean_string) = core["raw"].clean_string

C10_Witness ==
    /\ core["raw"].pc = "done"
    /\ SetupOk
    /\ TrimmedObject
    /\ payload.text = EmailText
    /\ core["raw"].clean_string = EmailText
    /\ core["raw"].out.out = "return"

-----------------------------------------------------------------------------
(* Fence detection, llm_utils.py:90-98 *)

\* C11: the buffer is trimmed before the fences are looked for, so a json-fenced
\* payload with whitespace around the fence is unwrapped as the same fenced
\* payload with nothing around it.
C11_TrimmedBeforeDetection ==
    (core["padded"].pc = "done" /\ SetupOk) =>
        core["padded"].clean_string =
            _clean_json_response(FenceJsonOpen \o payload.text \o FenceJsonClose)

\* C12: a response that matches the json-tagged fence and the generic fence is
\* unwrapped as a json-tagged one: the cleaned text is the trimmed payload, and
\* it does not begin with the tag.
C12_JsonFenceFirst ==
    LET response_content == ResponseContent("json", payload)
    IN  (/\ core["json"].pc = "done"
         /\ SetupOk
         /\ StartsWith(response_content, FenceJsonOpen)
         /\ EndsWith(response_content, FenceJsonClose)
         /\ StartsWith(response_content, Fence)
         /\ EndsWith(response_content, Fence)) =>
            /\ core["json"].clean_string = Strip(PayloadOf(payload))
            /\ ~StartsWith(core["json"].clean_string, <<"j", "s", "o", "n">>)

C12_Witness ==
    /\ core["json"].pc = "done"
    /\ SetupOk
    /\ payload.text = EmailText
    /\ payload.trail /= <<>>
    /\ StartsWith(ResponseContent("json", payload), Fence)
    /\ EndsWith(ResponseContent("json", payload), Fence)
    /\ core["json"].clean_string = EmailText
    /\ core["json"].email_json.ok

-----------------------------------------------------------------------------
(* The copies of the fence handling, and POST /api/generate-email/ *)

AllVariantsCalled == \A v \in Variants : variant[v].pc = "done"

\* C16: on a JSON object in a json fence with real newlines, every copy of the
\* email generation parses the document the databricks-app copy parses.
C16_VariantsAgree ==
    (/\ core["json"].pc = "done"
     /\ AllVariantsCalled
     /\ SetupOk
     /\ payload.text \in ObjectTexts) =>
        \A v \in Variants :
            /\ variant[v].email_json.ok
            /\ core["json"].email_json.ok
            /\ variant[v].email_json.val = core["json"].email_json.val

\* C18: api_generate_email answers with an email only when the parsed output
\* is an object with subject_line and body, and the email carries them; every
\* other outcome is answered with an HTTP error.  Both for app.py and for
\* backend/main.py.
C18_EmailOnlyWhenWellFormed ==
    /\ \A f \in Forms :
          api[f] /= NoResponse =>
              IF api[f].status_code = 200
              THEN /\ core[f].out.out = "return"
                   /\ IsEmailObject(core[f].email_json)
                   /\ PyStr(api[f].body.subject_line) = core[f].email_json.val.m[KeySubjectLine]
                   /\ PyStr(api[f].body.body) = core[f].email_json.val.m[KeyBody]
              ELSE /\ api[f].status_code \in {500, 503}
                   /\ "body" \notin DOMAIN api[f]
    /\ main_api /= NoResponse =>
          IF main_api.status_code = 200
          THEN /\ variant["main"].out.out = "return"
               /\ IsEmailObject(variant["main"].email_json)
               /\ PyStr(main_api.body.subject_line) = variant["main"].email_json.val.m[KeySubjectLine]
               /\ PyStr(main_api.body.body) = variant["main"].email_json.val.m[KeyBody]
          ELSE /\ main_api.status_code \in {500, 503}
               /\ "body" \notin DOMAIN main_api

\* app.py answers a json-fenced email with 200 and the email; backend/main.py,
\* which does not unwrap that fence, answers the same completion with 500
C18_Witness ==
    /\ api["json"].status_code = 200
    /\ api["json"].body.subject_line = <<"S">>
    /\ api["json"].body.body = <<"B">>
    /\ api["json"].body.trace_id = PyStr(TraceIdText)
    /\ main_api.status_code = 500

-----------------------------------------------------------------------------
(* The chunk producer and the server-sent events *)

TerminalCount(cs) == Cardinality({i \in 1..Len(cs) : IsTerminal(cs[i])})

GeneratorOver == gpc \in {"finished", "raised"}

\* C13: whatever the customer data and the upstream tokens, a finished run of
\* the generator has emitted exactly one terminal chunk, and it is the last
\* chunk.  Stated for runs in which set_app_version() succeeds.
C13_OneTerminalLast ==
    (GeneratorOver /\ app_version_ok) =>
        /\ TerminalCount(chunks) = 1
        /\ IsTerminal(chunks[Len(chunks)])

\* C14: the generator asks the upstream for a chunk only when every token it
\* already has was yielded and written as an event: at most one token has
\* arrived that is not yet an event, and the events are the tokens in order.
C14_PullAfterForward ==
    /\ Len(arrived) <= Len(events) + 1
    /\ \A i \in 1..Len(arrived) :
          i <= Len(events) => events[i] = ChunkEvent(TokenChunk(arrived[i]))
    /\ (gpc = "pull" /\ Resumed) => Len(events) >= Len(arrived)

C14_Witness ==
    /\ pulled = 3
    /\ Len(arrived) = 2
    /\ arrived[1] = FenceJsonOpen
    /\ gpc = "yield"
    /\ Len(events) = 1
    /\ events[1] = ChunkEvent(TokenChunk(FenceJsonOpen))
    /\ wpc = "await"

\* C15: once the request is cancelled nothing more is pulled from the upstream,
\* no chunk is yielded and no event is produced.
C15_CancelStopsEverything ==
    [][cancelled => (pulled' = pulled /\ chunks' = chunks /\ events' = events)]_vars

\* C19: when generate() ends without having been cancelled, the last event is
\* the bare done event, whether the generator finished or raised; if it raised,
\* the event before it is the error event carrying the exception's text.
C19_ClosesWithDone ==
    (wpc = "closed" /\ ~cancelled) =>
        /\ GeneratorOver
        /\ delivered = Len(chunks)
        /\ Len(events) = Len(chunks) + (IF gpc = "raised" THEN 2 ELSE 1)
        /\ events[Len(events)] = DoneEvent
        /\ gpc = "raised" => events[Len(events) - 1] = ErrorEvent(GenExceptionText)

C19_Witness ==
    /\ wpc = "closed"
    /\ ~cancelled
    /\ gpc = "raised"
    /\ Len(events) = 3
    /\ events[1] = ChunkEvent(TokenChunk(NoBodyText))
    /\ events[2] = ErrorEvent(<<"'body'">>)
    /\ events[3] = DoneEvent

-----------------------------------------------------------------------------
(* The company endpoints *)

LoadedNames == {CUSTOMER_DATA[i].account.name : i \in 1..Len(CUSTOMER_DATA)}

ListedNames == {companies.body[i].name : i \in 1..Len(companies.body)}

\* C17: a name listed by GET /api/companies is answered by GET
\* /api/customer/{name} with 200 and a record of that account name; a name
\* that is not in the loaded data is answered with 404.
C17_ListedNamesResolve ==
    /\ companies /= NoResponse =>
          /\ companies.status_code = 200
          /\ ListedNames = LoadedNames
    /\ (companies /= NoResponse /\ lookup.response /= NoResponse
        /\ lookup.name \in ListedNames) =>
            /\ lookup.response.status_code = 200
            /\ lookup.response.body.account.name = lookup.name
    /\ (lookup.response /= NoResponse /\ lookup.name \notin LoadedNames) =>
            lookup.response.status_code = 404

\* the second of two records is looked up by a name the list gave
C17_Witness ==
    /\ Len(CUSTOMER_DATA) >= 2
    /\ CUSTOMER_DATA[1].account.name = <<"B">>
    /\ CUSTOMER_DATA[2].account.name = <<"A", "b">>
    /\ companies /= NoResponse
    /\ companies.body[1].name = <<"A", "b">>
    /\ lookup.name = <<"A", "b">>
    /\ lookup.response.status_code = 200
    /\ lookup.response.body = CUSTOMER_DATA[2]

-----------------------------------------------------------------------------
(* The traffic client *)

\* what a line of the response says, read off the event the server wrote
SentContent(line) ==
    IF \E c \in TokenTexts : line = TokenLine(c)
    THEN CHOOSE c \in TokenTexts : line = TokenLine(c)
    ELSE <<>>

SentTraceId(line) ==
    IF \E tid \in SentTraceIds : line = DoneLine(tid)
    THEN CHOOSE tid \in SentTraceIds : line = DoneLine(tid)
    ELSE PyNone

TraceIdLines == {i \in 1..Len(lines) : SentTraceId(lines[i]) /= PyNone}

FirstSentTraceId ==
    IF TraceIdLines = {} THEN PyNone
    ELSE SentTraceId(lines[CHOOSE i \in TraceIdLines : \A j \in TraceIdLines : i <= j])

\* C20: parse_streaming_response returns the trace id of the first done event
\* that carries one (None when no done event does) and the token contents
\* joined in the order the events were sent; lines that are no JSON and lines
\* that are no data add nothing.
C20_FirstTraceIdAndContent ==
    client_out.out = "return" =>
        /\ client_out.val[1] = FirstSentTraceId
        /\ client_out.val[2] = Flatten([i \in 1..Len(lines) |-> SentContent(lines[i])])

\* a done event without a trace id, then two done events with different ones
C20_Witness ==
    /\ client_out.out = "return"
    /\ lines = <<DoneLine(PyNone), DoneLine(PyStr(TraceIdText)),
                 DoneLine(PyStr(OtherTraceIdText))>>
    /\ client_out.val[1] = PyStr(TraceIdText)

-----------------------------------------------------------------------------
(* The generator and its reducer *)

\* the chunk a finished generator yielded last
TerminalChunk == chunks[Len(chunks)]

HasDone(cs) == \E i \in 1..Len(cs) : cs[i].type = "done"

HasError(cs) == \E i \in 1..Len(cs) : cs[i].type = "error"

\* C26: for the chunk list of a completed run of the generator, the reducer's
\* accumulated text is the generator's full_response, the reducer returns an
\* error result exactly when the generator's last chunk is an error chunk, and
\* with a done chunk in the list the reducer's parse failure is never returned.
C26_ReducerAgreesWithGenerator ==
    (gpc = "finished" /\ ReducerOver) =>
        /\ full_content = full_response
        /\ result.out = "return"
        /\ result.val.t = "dict"
        /\ (KeyError \in DOMAIN result.val.m) <=> (TerminalChunk.type = "error")
        /\ HasDone(chunks) => KeyRawContent \notin DOMAIN result.val.m

\* a fenced email in three tokens: done chunk, document returned
C26_Witness ==
    /\ gpc = "finished"
    /\ rpc = "returned"
    /\ arrived = <<FenceJsonOpen, EmailText, FenceJsonClose>>
    /\ full_content = full_response
    /\ TerminalChunk.type = "done"
    /\ result.val.m[KeyBody] = PyStr(<<"B">>)

\* C27: a chunk list with an error chunk reduces to an error result whatever
\* the error chunk's message is, an empty one included; the accumulated
\* tokens are never returned as an email.
C27_ErrorChunkAlwaysFails ==
    (ReducerOver /\ HasError(chunks)) =>
        /\ result.out = "return"
        /\ result.val.t = "dict"
        /\ KeyError \in DOMAIN result.val.m
        /\ KeySubjectLine \notin DOMAIN result.val.m

-----------------------------------------------------------------------------
(* The traffic simulation *)

\* the records whose process_record has begun to run
Started == {r \in 1..MaxRecords : task[r].pc \notin {"new", "scheduled"}}

\* the records being processed: begun and not yet over
InFlight == {r \in Started : task[r].pc /= "done"}

\* the batch of run_simulation's loop a record belongs to, counted from 0
BatchOf(r) == (r - 1) \div batch_size

\* C21: once run_simulation has finished, total_requests = with_instructions
\* + without_instructions = successful_requests + failed_requests = the
\* number of records processed, and thumbs_up + thumbs_down + no_feedback =
\* successful_requests, whatever the interleaving of the coroutines was.
C21_StatsAddUp ==
    spc = "finished" =>
        /\ stats["total_requests"]
               = stats["with_instructions"] + stats["without_instructions"]
        /\ stats["total_requests"]
               = stats["successful_requests"] + stats["failed_requests"]
        /\ stats["total_requests"] = Cardinality(Started)
        /\ stats["thumbs_up"] + stats["thumbs_down"] + stats["no_feedback"]
               = stats["successful_requests"]

\* two batches, with a failed generation, a thumbs-up, a thumbs-down and a
\* feedback request that failed
C21_Witness ==
    /\ spc = "finished"
    /\ records = 4
    /\ stats["total_requests"] = 4
    /\ stats["failed_requests"] = 1
    /\ stats["thumbs_up"] = 1
    /\ stats["thumbs_down"] = 1
    /\ stats["no_feedback"] = 1
    /\ \E r \in 1..records : Len(task[r].feedback) = 1 /\ task[r].has_instructions
                             /\ stats["with_instructions"] = 2

\* C22: at most batch_size records are in flight at any time, and no record
\* of a batch starts before every record of the batches before it is over,
\* generation and feedback included.
C22_BatchesDoNotOverlap ==
    /\ Cardinality(InFlight) <= batch_size
    /\ \A r \in Started : \A q \in 1..records :
           BatchOf(q) < BatchOf(r) => task[q].pc = "done"

\* the second batch in flight in full, one record of it giving feedback
C22_Witness ==
    /\ Cardinality(InFlight) = batch_size
    /\ \A r \in InFlight : BatchOf(r) = 1
    /\ \E r \in InFlight : task[r].pc = "submit"
    /\ \A q \in 1..batch_size : task[q].pc = "done" /\ Len(task[q].feedback) = 1

\* C23: feedback for a record is submitted only after its generation has
\* completed with a trace_id, and with that trace_id; a thumbs-down only for
\* a record sent with instructions, a thumbs-up only for one sent without;
\* at most one submission per record.
C23_FeedbackFollowsGeneration ==
    \A r \in 1..MaxRecords :
        /\ Len(task[r].feedback) <= 1
        /\ \A k \in 1..Len(task[r].feedback) :
              /\ task[r].pc \in {"submit", "rest", "done"}
              /\ task[r].trace_id = TraceOf(r)
              /\ task[r].feedback[k].trace_id = task[r].trace_id
              /\ task[r].feedback[k].rating = "down" => task[r].has_instructions
              /\ task[r].feedback[k].rating = "up" => ~task[r].has_instructions

\* a thumbs-up and a thumbs-down in flight at once, each with its own trace
C23_Witness ==
    /\ task[1].pc = "submit"
    /\ task[2].pc = "submit"
    /\ task[1].feedback = <<[trace_id |-> TraceOf(1), rating |-> "up"]>>
    /\ task[2].feedback = <<[trace_id |-> TraceOf(2), rating |-> "down"]>>

-----------------------------------------------------------------------------
(* predict_fn and the module-level prompt and model *)

\* C24: predict_fn overrides PROMPT and LLM_MODEL only for the time of the
\* call: when a call returns or raises, both have the values they had when
\* the call was entered.
C24_OverrideIsTemporary ==
    [][\A c \in Calls :
          (call[c].pc = "restore_model" /\ call'[c].pc = "done") =>
              /\ PROMPT' = call[c].entry_prompt
              /\ LLM_MODEL' = call[c].entry_model]_vars

\* one call that raised and one that returned, both with values other than the
\* module's, and the module's values back in place
C24_Witness ==
    /\ \A c \in Calls : call[c].pc = "done"
    /\ call[1].outcome = "raise"
    /\ call[1].request_prompt = call[1].prompt_template
    /\ call[2].outcome = "return"
    /\ call[2].prompt_template /= call[1].prompt_template
    /\ call[2].entry_prompt = ModulePrompt
    /\ PROMPT = ModulePrompt
    /\ LLM_MODEL = ModuleModel

\* C25: when calls of predict_fn overlap, every call's request is made with
\* that call's own prompt_template and model, and once all calls are over
\* PROMPT and LLM_MODEL have the values from before the first call.
C25_OverlappingCallsKeepTheirOwn ==
    /\ \A c \in Calls :
          call[c].pc \in {"request", "restore_prompt", "restore_model", "done"}
              /\ call[c].request_prompt /= Unset =>
                  /\ call[c].request_prompt = call[c].prompt_template
                  /\ call[c].request_model = call[c].model
    /\ (\A c \in Calls : call[c].pc = "done") =>
          /\ PROMPT = ModulePrompt
          /\ LLM_MODEL = ModuleModel

-----------------------------------------------------------------------------
(* The judge evaluator *)

\* sub occurs in t
Occurs(sub, t) ==
    \E i \in 1..(Len(t) - Len(sub) + 1) : SubSeq(t, i, i + Len(sub) - 1) = sub

\* the names that stand in double braces somewhere in the template
InBraces(template) == {n \in Names : Occurs(Braced(n), template)}

\* C28: a call of a judge evaluator that leaves a {{placeholder}} of the
\* prompt template without keyword argument raises ValueError naming the
\* missing placeholders, before any request is sent to the model endpoint;
\* with every placeholder supplied the request is made.
C28_MissingPlaceholderRaises ==
    LET missing == InBraces(judge.prompt_template) \ judge.kwargs
    IN  judge.pc /= "call" =>
            IF missing /= {}
            THEN /\ judge.pc = "raised"
                 /\ judge.out.out = "raise"
                 /\ judge.out.exc = "ValueError"
                 /\ judge.out.missing = missing
                 /\ judge.requests = <<>>
            ELSE /\ judge.out.missing = {}
                 /\ judge.pc /= "request" => Len(judge.requests) = 1

\* {{a}}{{ab}}{{b}} called with a alone: both other names are reported
C28_Witness ==
    /\ judge.prompt_template
           = Braced(<<"a">>) \o Braced(<<"a", "b">>) \o Braced(<<"b">>)
    /\ judge.kwargs = {<<"a">>}
    /\ judge.pc = "raised"
    /\ judge.out.missing = {<<"b">>, <<"a", "b">>}
    /\ judge.requests = <<>>

=============================================================================
